---- MODULE Spec2Model ----
(***************************************************************************)
(* A model of the lead-cleaning pipeline of the Bukmuk library CRM         *)
(* (src/data_cleaner.py, class LeadsDataCleaner).                          *)
(*                                                                         *)
(* Text is modelled as a sequence of one-character strings, so that the    *)
(* substring, prefix, strip and lower-case operations of the code are      *)
(* computed rather than assumed.  A table (pandas DataFrame) is a record   *)
(*   [cols |-> sequence of labels, rows |-> sequence of rows]              *)
(* and a row is [idx |-> its index label, vals |-> one cell per column].   *)
(* A missing cell (None / NaN) is the value NA.                            *)
(***************************************************************************)
EXTENDS Integers, Sequences, FiniteSets, TLC

VARIABLES pc, df, out, cleaning_log, clock, workbook, cleaned_data,
          enable_ai_enrichment, openai_api_key, ai_responses,
          leads_data, leads_data_latest, call, leads, audit_log

vars == <<pc, df, out, cleaning_log, clock, workbook, cleaned_data,
          enable_ai_enrichment, openai_api_key, ai_responses,
          leads_data, leads_data_latest, call, leads, audit_log>>

\* the state of a LeadManager (leads_data, the file leads_data_latest.xlsx),
\* of the database (the tables leads and audit_log), and the last call made
\* on either of them
crm_vars == <<leads_data, leads_data_latest, call, leads, audit_log>>

\* what the unit specifications leave alone
pipeline_vars ==
  <<workbook, cleaned_data, enable_ai_enrichment, openai_api_key, ai_responses,
    crm_vars>>

\* the state of a LeadsDataCleaner
cleaner_vars ==
  <<df, out, cleaning_log, workbook, cleaned_data, enable_ai_enrichment,
    openai_api_key, ai_responses>>

\* no call made yet
NoCall ==
  [op |-> "none", lead_id |-> 0, new_status |-> << >>, notes |-> << >>,
   user_id |-> << >>, result |-> FALSE]

\* no LeadManager and no database in use
NoCrm ==
  /\ leads_data = << >>
  /\ leads_data_latest = << >>
  /\ call = NoCall
  /\ leads = << >>
  /\ audit_log = << >>

(***************************************************************************)
(* Text.                                                                   *)
(***************************************************************************)
NA == <<"NA">>

EmptyStr == << >>

\* the column labels, cell values and patterns the code spells out
S ==
  [phone_number |-> <<"p","h","o","n","e","_","n","u","m","b","e","r">>,
   email |-> <<"e","m","a","i","l">>,
   full_name |-> <<"f","u","l","l","_","n","a","m","e">>,
   city |-> <<"c","i","t","y">>,
   source_sheet |-> <<"s","o","u","r","c","e","_","s","h","e","e","t">>,
   child_age |-> <<"c","h","i","l","d","_","a","g","e">>,
   lead_type |-> <<"l","e","a","d","_","t","y","p","e">>,
   duplicate_key |-> <<"d","u","p","l","i","c","a","t","e","_","k","e","y">>,
   secondary_key |-> <<"s","e","c","o","n","d","a","r","y","_","k","e","y">>,
   completeness_score |-> <<"c","o","m","p","l","e","t","e","n","e","s","s","_","s","c","o","r","e">>,
   sheet_priority |-> <<"s","h","e","e","t","_","p","r","i","o","r","i","t","y">>,
   cleaned_date |-> <<"c","l","e","a","n","e","d","_","d","a","t","e">>,
   lead_status |-> <<"l","e","a","d","_","s","t","a","t","u","s">>,
   status_updated_date |-> <<"s","t","a","t","u","s","_","u","p","d","a","t","e","d","_","d","a","t","e">>,
   last_contact_date |-> <<"l","a","s","t","_","c","o","n","t","a","c","t","_","d","a","t","e">>,
   follow_up_date |-> <<"f","o","l","l","o","w","_","u","p","_","d","a","t","e">>,
   follow_up_count |-> <<"f","o","l","l","o","w","_","u","p","_","c","o","u","n","t">>,
   lead_score |-> <<"l","e","a","d","_","s","c","o","r","e">>,
   priority |-> <<"p","r","i","o","r","i","t","y">>,
   nan |-> <<"n","a","n">>,
   main |-> <<"m","a","i","n">>,
   primary |-> <<"p","r","i","m","a","r","y">>,
   leads |-> <<"l","e","a","d","s">>,
   contacts |-> <<"c","o","n","t","a","c","t","s">>,
   brightr_lead |-> <<"b","r","i","g","h","t","r"," ","l","e","a","d">>,
   Unnamed0 |-> <<"U","n","n","a","m","e","d",":"," ","0">>,
   Number_ |-> <<"N","u","m","b","e","r"," ">>,
   Any_response_ |-> <<"A","n","y"," ","r","e","s","p","o","n","s","e"," ">>,
   Date_contacted_ |-> <<"D","a","t","e"," ","c","o","n","t","a","c","t","e","d"," ">>,
   Age_group_ |-> <<"A","g","e"," ","g","r","o","u","p"," ">>,
   status |-> <<"s","t","a","t","u","s">>,
   lead_date |-> <<"l","e","a","d","_","d","a","t","e">>,
   lead_source |-> <<"l","e","a","d","_","s","o","u","r","c","e">>,
   None |-> <<"N","o","n","e">>,
   unnamed |-> <<"u","n","n","a","m","e","d">>,
   col_ |-> <<"c","o","l","_">>,
   col_infix |-> <<"_","c","o","l","_">>,
   dup_infix |-> <<"_","d","u","p","_">>,
   underscore |-> <<"_">>,
   first_name |-> <<"f","i","r","s","t","_","n","a","m","e">>,
   last_name |-> <<"l","a","s","t","_","n","a","m","e">>,
   address |-> <<"a","d","d","r","e","s","s">>,
   state |-> <<"s","t","a","t","e">>,
   country |-> <<"c","o","u","n","t","r","y">>,
   postal_code |-> <<"p","o","s","t","a","l","_","c","o","d","e">>,
   ai_customer_segment |-> <<"a","i","_","c","u","s","t","o","m","e","r","_","s","e","g","m","e","n","t">>,
   ai_potential_value |-> <<"a","i","_","p","o","t","e","n","t","i","a","l","_","v","a","l","u","e">>,
   ai_engagement_strategy |-> <<"a","i","_","e","n","g","a","g","e","m","e","n","t","_","s","t","r","a","t","e","g","y">>,
   ai_library_benefits |-> <<"a","i","_","l","i","b","r","a","r","y","_","b","e","n","e","f","i","t","s">>]
NewLead == <<"N","e","w"," ","L","e","a","d">>
High == <<"H","i","g","h">>
Medium == <<"M","e","d","i","u","m">>
Low == <<"L","o","w">>

Whitespace == {" ", "\t", "\n", "\r"}

UpperToLower ==
  [c \in {"A","B","C","D","E","F","G","H","I","J","K","L","M",
          "N","O","P","Q","R","S","T","U","V","W","X","Y","Z"} |->
     CASE c = "A" -> "a" [] c = "B" -> "b" [] c = "C" -> "c" [] c = "D" -> "d"
       [] c = "E" -> "e" [] c = "F" -> "f" [] c = "G" -> "g" [] c = "H" -> "h"
       [] c = "I" -> "i" [] c = "J" -> "j" [] c = "K" -> "k" [] c = "L" -> "l"
       [] c = "M" -> "m" [] c = "N" -> "n" [] c = "O" -> "o" [] c = "P" -> "p"
       [] c = "Q" -> "q" [] c = "R" -> "r" [] c = "S" -> "s" [] c = "T" -> "t"
       [] c = "U" -> "u" [] c = "V" -> "v" [] c = "W" -> "w" [] c = "X" -> "x"
       [] c = "Y" -> "y" [] c = "Z" -> "z"]

\* str.lower()
Lower(s) ==
  [i \in 1..Len(s) |-> IF s[i] \in DOMAIN UpperToLower THEN UpperToLower[s[i]] ELSE s[i]]

\* sub in s
Contains(s, sub) ==
  \E i \in 0..(Len(s) - Len(sub)) : SubSeq(s, i + 1, i + Len(sub)) = sub

\* s.startswith(pre)
StartsWith(s, pre) ==
  Len(s) >= Len(pre) /\ SubSeq(s, 1, Len(pre)) = pre

RECURSIVE LStrip(_)
LStrip(s) ==
  IF s # << >> /\ Head(s) \in Whitespace THEN LStrip(Tail(s)) ELSE s

RECURSIVE RStrip(_)
RStrip(s) ==
  IF s # << >> /\ s[Len(s)] \in Whitespace THEN RStrip(SubSeq(s, 1, Len(s) - 1)) ELSE s

\* str.strip()
Strip(s) == RStrip(LStrip(s))

\* pd.isna / pd.notna of one cell
isna(v) == v = NA

notna(v) == v # NA

\* str(v): a missing cell prints as the text nan
PyStr(v) == IF v = NA THEN S.nan ELSE v

\* Series.fillna('') of one cell
fillna(v) == IF v = NA THEN EmptyStr ELSE v

(***************************************************************************)
(* Tables.                                                                 *)
(***************************************************************************)
\* a function on 1..n written out as the sequence of its values
AsSeq(f) == SubSeq(f, 1, Len(f))

NRows(t) == Len(t.rows)

HasCol(t, c) == \E i \in 1..Len(t.cols) : t.cols[i] = c

\* the first position at or after i that holds label c
RECURSIVE FirstIdx(_, _, _)
FirstIdx(cols, c, i) == IF cols[i] = c THEN i ELSE FirstIdx(cols, c, i + 1)

ColIdx(t, c) == FirstIdx(t.cols, c, 1)

\* df[c] at row position k
Cell(t, k, c) == t.rows[k].vals[ColIdx(t, c)]

\* row.get(c, None)
RowGet(t, k, c) == IF HasCol(t, c) THEN Cell(t, k, c) ELSE NA

\* df[c] = vs : overwrite the column when it exists, append it otherwise
SetCol(t, c, vs) ==
  IF HasCol(t, c)
  THEN [t EXCEPT !.rows =
          AsSeq([k \in 1..NRows(t) |->
                   [t.rows[k] EXCEPT !.vals[ColIdx(t, c)] = vs[k]]])]
  ELSE [cols |-> Append(t.cols, c),
        rows |-> AsSeq([k \in 1..NRows(t) |->
                          [t.rows[k] EXCEPT !.vals = Append(t.rows[k].vals, vs[k])]])]

RemoveAt(s, i) == SubSeq(s, 1, i - 1) \o SubSeq(s, i + 1, Len(s))

\* df.drop([c], axis=1)
DropCol(t, c) ==
  LET i == ColIdx(t, c) IN
  [cols |-> RemoveAt(t.cols, i),
   rows |-> AsSeq([k \in 1..NRows(t) |->
                     [t.rows[k] EXCEPT !.vals = RemoveAt(t.rows[k].vals, i)]])]

\* the rows of t taken in the order p (a sequence of row positions)
TakeRows(t, p) == [t EXCEPT !.rows = AsSeq([k \in 1..Len(p) |-> t.rows[p[k]]])]

\* the index pandas gives a freshly concatenated table: 0, 1, 2, ...
MkTable(cols, f) ==
  [cols |-> cols,
   rows |-> AsSeq([k \in 1..Len(f) |-> [idx |-> k - 1, vals |-> f[k]]])]

(***************************************************************************)
(* remove_duplicates (src/data_cleaner.py 450-554).                        *)
(***************************************************************************)
\* lines 464-475: the one column the duplicate key is read from
duplicate_key_source(t) ==
  IF HasCol(t, S.phone_number) THEN S.phone_number
  ELSE IF HasCol(t, S.email) THEN S.email
  ELSE S.full_name

\* line 474 raises KeyError when none of the three columns exists
remove_duplicates_raises(t) ==
  /\ ~HasCol(t, S.phone_number)
  /\ ~HasCol(t, S.email)
  /\ ~HasCol(t, S.full_name)

\* cleaned_df['duplicate_key'] = cleaned_df[<column>].fillna('')
add_duplicate_key(t) ==
  SetCol(t, S.duplicate_key,
         [k \in 1..NRows(t) |-> fillna(Cell(t, k, duplicate_key_source(t)))])

JoinBar(a, b) == fillna(a) \o <<"|">> \o fillna(b)

\* lines 478-486: the secondary key (computed, never read, never dropped)
add_secondary_key(t) ==
  IF HasCol(t, S.phone_number) /\ HasCol(t, S.email)
  THEN SetCol(t, S.secondary_key,
              [k \in 1..NRows(t) |->
                 JoinBar(Cell(t, k, S.email), Cell(t, k, S.phone_number))])
  ELSE IF HasCol(t, S.phone_number) /\ HasCol(t, S.full_name)
  THEN SetCol(t, S.secondary_key,
              [k \in 1..NRows(t) |->
                 JoinBar(Cell(t, k, S.phone_number), Cell(t, k, S.full_name))])
  ELSE IF HasCol(t, S.email) /\ HasCol(t, S.full_name)
  THEN SetCol(t, S.secondary_key,
              [k \in 1..NRows(t) |->
                 JoinBar(Cell(t, k, S.email), Cell(t, k, S.full_name))])
  ELSE t

\* FieldFilled, were a blank text taken for a value
FieldFilled_notna(t, k, c) ==
  /\ HasCol(t, c)
  /\ notna(Cell(t, k, c))

\* 'c' in row.index and pd.notna(row[c]) and str(row[c]).strip() != ''
FieldFilled(t, k, c) ==
  /\ HasCol(t, c)
  /\ notna(Cell(t, k, c))
  /\ Strip(PyStr(Cell(t, k, c))) # EmptyStr

\* lines 490-508
get_completeness_score(t, k) ==
    (IF FieldFilled(t, k, S.phone_number) THEN 40 ELSE 0)
  + (IF FieldFilled(t, k, S.email) THEN 35 ELSE 0)
  + (IF FieldFilled(t, k, S.city) THEN 15 ELSE 0)
  + (IF FieldFilled(t, k, S.full_name) THEN 10 ELSE 0)

\* line 511
add_completeness_score(t) ==
  SetCol(t, S.completeness_score,
         [k \in 1..NRows(t) |-> get_completeness_score(t, k)])

\* lines 514-519, in the dict's iteration order
sheet_priority ==
  << [key |-> <<"M","a","i","n">>, priority |-> 1],
     [key |-> <<"P","r","i","m","a","r","y">>, priority |-> 1],
     [key |-> <<"L","e","a","d","s">>, priority |-> 2],
     [key |-> <<"C","o","n","t","a","c","t","s">>, priority |-> 3] >>

\* get_sheet_priority, were the sheet name compared with the key for equality
get_sheet_priority_exact(sheet_name) ==
  LET hits == {i \in 1..Len(sheet_priority) : sheet_name = sheet_priority[i].key}
  IN IF hits = {} THEN 999
     ELSE sheet_priority[CHOOSE i \in hits : \A j \in hits : i <= j].priority

\* lines 521-525: the first key contained in the lower-cased sheet name
get_sheet_priority(sheet_name) ==
  LET hits == {i \in 1..Len(sheet_priority) :
                 Contains(Lower(PyStr(sheet_name)), Lower(sheet_priority[i].key))}
  IN IF hits = {} THEN 999
     ELSE sheet_priority[CHOOSE i \in hits : \A j \in hits : i <= j].priority

\* line 529
add_sheet_priority(t) ==
  SetCol(t, S.sheet_priority,
         [k \in 1..NRows(t) |-> get_sheet_priority(Cell(t, k, S.source_sheet))])

Perms(n) ==
  {p \in [1..n -> 1..n] : \A i, j \in 1..n : p[i] = p[j] => i = j}

\* line 532: sort_values on two columns is pandas' lexsort, which is stable:
\* completeness_score descending, sheet_priority ascending, then input order
LexBefore(t, a, b) ==
  LET sa == Cell(t, a, S.completeness_score)
      sb == Cell(t, b, S.completeness_score)
      ra == Cell(t, a, S.sheet_priority)
      rb == Cell(t, b, S.sheet_priority)
  IN \/ sa > sb
     \/ sa = sb /\ ra < rb
     \/ sa = sb /\ ra = rb /\ a < b

sort_values_lexsort(t) ==
  {p \in Perms(NRows(t)) :
     \A i, j \in 1..NRows(t) : i < j => LexBefore(t, p[i], p[j])}

\* line 535: sort_values on one column uses kind='quicksort', which pandas and
\* numpy document as not stable: rows of equal score come out in any order
ScoreNotBelow(t, a, b) ==
  Cell(t, a, S.completeness_score) >= Cell(t, b, S.completeness_score)

sort_values_quicksort(t) ==
  {p \in Perms(NRows(t)) :
     \A i, j \in 1..NRows(t) : i < j => ScoreNotBelow(t, p[i], p[j])}

\* lines 528-535: the orders the sort can produce
sort_orders(t) ==
  IF HasCol(t, S.source_sheet)
  THEN sort_values_lexsort(t)
  ELSE sort_values_quicksort(t)

\* IsFirstOfKey, were drop_duplicates called with keep='last'
IsLastOfKey(t, k, c) ==
  \A j \in (k + 1)..NRows(t) : Cell(t, j, c) # Cell(t, k, c)

\* a row is dropped when an earlier row has the same value in column c
IsFirstOfKey(t, k, c) ==
  \A j \in 1..(k - 1) : Cell(t, j, c) # Cell(t, k, c)

RECURSIVE FirstPositions(_, _, _)
FirstPositions(t, c, k) ==
  IF k > NRows(t) THEN << >>
  ELSE (IF IsFirstOfKey(t, k, c) THEN <<k>> ELSE << >>)
       \o FirstPositions(t, c, k + 1)

\* line 539: drop_duplicates(subset=[c], keep='first')
drop_duplicates(t, c) == TakeRows(t, FirstPositions(t, c, 1))

\* lines 543-548
drop_temporary(t) ==
  LET t1 == IF HasCol(t, S.duplicate_key) THEN DropCol(t, S.duplicate_key) ELSE t
      t2 == IF HasCol(t1, S.completeness_score)
            THEN DropCol(t1, S.completeness_score) ELSE t1
  IN IF HasCol(t2, S.sheet_priority) THEN DropCol(t2, S.sheet_priority) ELSE t2

\* lines 455-529: the table as it stands before the sort, with the
\* duplicate key, the secondary key, the score and the sheet priority
ranked_table(t) ==
  LET keyed == add_completeness_score(add_secondary_key(add_duplicate_key(t)))
  IN IF HasCol(keyed, S.source_sheet) THEN add_sheet_priority(keyed) ELSE keyed

\* lines 532-548, for the order p the sort produced
dedup_sorted(ranked, p) ==
  drop_temporary(drop_duplicates(TakeRows(ranked, p), S.duplicate_key))

\* remove_duplicates, for the order p the sort produced
remove_duplicates(t, p) == dedup_sorted(ranked_table(t), p)

LogEntry(msg, n) == [msg |-> msg, n |-> n]

\* lines 550-552
log_removed(log, before, after) ==
  IF before - NRows(after) > 0
  THEN Append(log, LogEntry("Removed duplicate records across all sheets",
                            before - NRows(after)))
  ELSE log

(***************************************************************************)
(* add_metadata (src/data_cleaner.py 556-609).                             *)
(***************************************************************************)
\* df[c] = v : the same value in every row
SetColAll(t, c, v) == SetCol(t, c, [k \in 1..NRows(t) |-> v])

\* pd.notna(row.get(c, None)) and str(row.get(c, '')).strip() != ''
GetFilled(t, k, c) ==
  /\ notna(RowGet(t, k, c))
  /\ Strip(PyStr(IF HasCol(t, c) THEN Cell(t, k, c) ELSE EmptyStr)) # EmptyStr

\* calculate_lead_score, were the ten points earned by the full name
calculate_lead_score_name(t, k) ==
    (IF GetFilled(t, k, S.phone_number) THEN 40 ELSE 0)
  + (IF GetFilled(t, k, S.email) THEN 35 ELSE 0)
  + (IF GetFilled(t, k, S.city) THEN 15 ELSE 0)
  + (IF GetFilled(t, k, S.full_name) THEN 10 ELSE 0)

\* calculate_lead_score, were the points added to the score the record has
calculate_lead_score_added(t, k) ==
    (IF HasCol(t, S.lead_score) THEN Cell(t, k, S.lead_score) ELSE 0)
  + (IF GetFilled(t, k, S.phone_number) THEN 40 ELSE 0)
  + (IF GetFilled(t, k, S.email) THEN 35 ELSE 0)
  + (IF GetFilled(t, k, S.city) THEN 15 ELSE 0)
  + (IF notna(RowGet(t, k, S.child_age)) \/ notna(RowGet(t, k, S.lead_type))
       THEN 10 ELSE 0)

\* lines 575-593
calculate_lead_score(t, k) ==
    (IF GetFilled(t, k, S.phone_number) THEN 40 ELSE 0)
  + (IF GetFilled(t, k, S.email) THEN 35 ELSE 0)
  + (IF GetFilled(t, k, S.city) THEN 15 ELSE 0)
  + (IF notna(RowGet(t, k, S.child_age)) \/ notna(RowGet(t, k, S.lead_type))
       THEN 10 ELSE 0)

\* lines 598-604
assign_priority(score) ==
  IF score >= 70 THEN High
  ELSE IF score >= 40 THEN Medium
  ELSE Low

\* add_tracking, were a column the table has left as it is
add_tracking_missing(t, now1, now2) ==
  LET Fill(u, c, v) == IF HasCol(u, c) THEN u ELSE SetColAll(u, c, v)
      t1 == Fill(t, S.cleaned_date, now1)
      t2 == Fill(t1, S.lead_status, NewLead)
      t3 == Fill(t2, S.status_updated_date, now2)
      t4 == Fill(t3, S.last_contact_date, NA)
      t5 == Fill(t4, S.follow_up_date, NA)
  IN Fill(t5, S.follow_up_count, 0)

\* lines 560-572: the tracking columns; now1 and now2 are the two readings of
\* datetime.now()
add_tracking(t, now1, now2) ==
  LET t1 == SetColAll(t, S.cleaned_date, now1)
      t2 == SetColAll(t1, S.lead_status, NewLead)
      t3 == SetColAll(t2, S.status_updated_date, now2)
      t4 == SetColAll(t3, S.last_contact_date, NA)
      t5 == SetColAll(t4, S.follow_up_date, NA)
  IN SetColAll(t5, S.follow_up_count, 0)

\* lines 556-609
add_metadata(t, now1, now2) ==
  LET tracked == add_tracking(t, now1, now2)
      scored == SetCol(tracked, S.lead_score,
                       [k \in 1..NRows(tracked) |-> calculate_lead_score(tracked, k)])
  IN SetCol(scored, S.priority,
            [k \in 1..NRows(scored) |-> assign_priority(Cell(scored, k, S.lead_score))])

(***************************************************************************)
(* load_excel_data, all-sheets mode (src/data_cleaner.py 23-139).          *)
(* A workbook is a sequence of sheets                                      *)
(*   [name, readable, cols, rows]                                          *)
(* with cols the header labels and rows the cell values, one per label.    *)
(***************************************************************************)

\* lines 75-94: the keyword groups, in the order of the if / elif chain
keyword_groups ==
  << [target |-> <<"f","u","l","l","_","n","a","m","e">>,
      keywords |-> {<<"n","a","m","e">>,
                    <<"f","u","l","l","_","n","a","m","e">>,
                    <<"f","i","r","s","t","_","n","a","m","e">>,
                    <<"l","a","s","t","_","n","a","m","e">>}],
     [target |-> <<"p","h","o","n","e","_","n","u","m","b","e","r">>,
      keywords |-> {<<"p","h","o","n","e">>,
                    <<"m","o","b","i","l","e">>,
                    <<"t","e","l","e","p","h","o","n","e">>,
                    <<"c","o","n","t","a","c","t">>,
                    <<"n","u","m","b","e","r">>}],
     [target |-> <<"e","m","a","i","l">>,
      keywords |-> {<<"e","m","a","i","l">>,
                    <<"e","-","m","a","i","l">>,
                    <<"m","a","i","l">>}],
     [target |-> <<"c","i","t","y">>,
      keywords |-> {<<"c","i","t","y">>,
                    <<"t","o","w","n">>,
                    <<"l","o","c","a","t","i","o","n">>}],
     [target |-> <<"l","e","a","d","_","d","a","t","e">>,
      keywords |-> {<<"d","a","t","e">>,
                    <<"c","r","e","a","t","e","d">>,
                    <<"t","i","m","e","s","t","a","m","p">>,
                    <<"c","o","n","t","a","c","t","e","d">>}],
     [target |-> <<"s","t","a","t","u","s">>,
      keywords |-> {<<"s","t","a","t","u","s">>,
                    <<"l","e","a","d","_","s","t","a","t","u","s">>,
                    <<"s","t","a","g","e">>,
                    <<"r","e","s","p","o","n","s","e">>}],
     [target |-> <<"l","e","a","d","_","s","o","u","r","c","e">>,
      keywords |-> {<<"s","o","u","r","c","e">>,
                    <<"l","e","a","d","_","s","o","u","r","c","e">>,
                    <<"o","r","i","g","i","n">>}],
     [target |-> <<"c","h","i","l","d","_","a","g","e">>,
      keywords |-> {<<"a","g","e">>,
                    <<"c","h","i","l","d","_","a","g","e">>,
                    <<"g","r","o","u","p">>}],
     [target |-> <<"l","e","a","d","_","t","y","p","e">>,
      keywords |-> {<<"t","y","p","e">>,
                    <<"l","e","a","d","_","t","y","p","e">>}],
     [target |-> <<"n","o","t","e","s">>,
      keywords |-> {<<"n","o","t","e","s">>,
                    <<"c","o","m","m","e","n","t","s">>,
                    <<"d","e","s","c","r","i","p","t","i","o","n">>}] >>

\* standard_name, were the last matching group to win
standard_name_last(col) ==
  LET col_str == Strip(Lower(PyStr(col)))
      hits == {g \in 1..Len(keyword_groups) :
                 \E name \in keyword_groups[g].keywords : Contains(col_str, name)}
  IN IF hits = {} THEN col
     ELSE keyword_groups[CHOOSE g \in hits : \A h \in hits : g >= h].target

\* line 72 and lines 75-97: the standard name of a header label
standard_name(col) ==
  LET col_str == Strip(Lower(PyStr(col)))
      hits == {g \in 1..Len(keyword_groups) :
                 \E name \in keyword_groups[g].keywords : Contains(col_str, name)}
  IN IF hits = {} THEN col
     ELSE keyword_groups[CHOOSE g \in hits : \A h \in hits : g <= h].target

\* pd.read_excel of one sheet, indexed 0, 1, 2, ...
read_sheet(sheet) == MkTable(sheet.cols, sheet.rows)

\* sheet_df.empty
IsEmptyFrame(t) == t.rows = << >> \/ t.cols = << >>

\* the values of column c, top to bottom
Column(t, c) == [k \in 1..NRows(t) |-> Cell(t, k, c)]

\* lines 41-57: the sheets that are read, are not empty, each with its name
\* in the column source_sheet
RECURSIVE load_sheets(_, _)
load_sheets(sheets, i) ==
  IF i > Len(sheets) THEN << >>
  ELSE LET sheet == sheets[i]
           sheet_df == read_sheet(sheet)
       IN (IF sheet.readable /\ ~IsEmptyFrame(sheet_df)
           THEN <<SetColAll(sheet_df, S.source_sheet, sheet.name)>>
           ELSE << >>)
          \o load_sheets(sheets, i + 1)

\* a frame with the rows of t and no column
NoColumns(t) ==
  [cols |-> << >>,
   rows |-> AsSeq([k \in 1..NRows(t) |-> [idx |-> t.rows[k].idx, vals |-> << >>]])]

\* lines 71-97, from column i on: std_df[<standard name>] = sheet_df[col]
RECURSIVE standardize_columns(_, _, _)
standardize_columns(sheet_df, std_df, i) ==
  IF i > Len(sheet_df.cols) THEN std_df
  ELSE standardize_columns(
         sheet_df,
         SetCol(std_df, standard_name(sheet_df.cols[i]),
                [k \in 1..NRows(sheet_df) |-> sheet_df.rows[k].vals[i]]),
         i + 1)

CopyIfPresent(sheet_df, std_df, from, to) ==
  IF HasCol(sheet_df, from) THEN SetCol(std_df, to, Column(sheet_df, from)) ELSE std_df

\* lines 100-112: the fixed layout of the sheet whose name holds 'brightr lead'
brightr_overrides(sheet_df, std_df) ==
  IF \E k \in 1..NRows(sheet_df) :
       Contains(PyStr(Cell(sheet_df, k, S.source_sheet)), S.brightr_lead)
  THEN LET s1 == CopyIfPresent(sheet_df, std_df, S.Unnamed0, S.full_name)
           s2 == CopyIfPresent(sheet_df, s1, S.Number_, S.phone_number)
           s3 == CopyIfPresent(sheet_df, s2, S.Any_response_, S.status)
           s4 == CopyIfPresent(sheet_df, s3, S.Date_contacted_, S.lead_date)
       IN CopyIfPresent(sheet_df, s4, S.Age_group_, S.child_age)
  ELSE std_df

\* lines 66-116, for one sheet
standardize_sheet(sheet_df) ==
  LET mapped == standardize_columns(sheet_df, NoColumns(sheet_df), 1)
      fixed == brightr_overrides(sheet_df, mapped)
  IN SetCol(fixed, S.source_sheet, Column(sheet_df, S.source_sheet))

\* the labels of the frames from i on, each once, in order of first appearance
RECURSIVE union_columns(_, _, _)
union_columns(frames, i, acc) ==
  IF i > Len(frames) THEN acc
  ELSE union_columns(
         frames, i + 1,
         acc \o SelectSeq(frames[i].cols,
                          LAMBDA c : \A j \in 1..Len(acc) : acc[j] # c))

RECURSIVE concat_rows(_, _, _)
concat_rows(frames, cols, i) ==
  IF i > Len(frames) THEN << >>
  ELSE AsSeq([k \in 1..NRows(frames[i]) |->
                [j \in 1..Len(cols) |-> RowGet(frames[i], k, cols[j])]])
       \o concat_rows(frames, cols, i + 1)

\* line 120: pd.concat(frames, ignore_index=True)
concat(frames) ==
  LET cols == union_columns(frames, 1, << >>)
  IN MkTable(cols, concat_rows(frames, cols, 1))

\* load_excel_data_raises, were one empty or unreadable sheet enough to fail
load_excel_data_raises_any(sheets) == Len(load_sheets(sheets, 1)) < Len(sheets)

\* lines 59-60: ValueError("No valid data found in any sheet")
load_excel_data_raises(sheets) == load_sheets(sheets, 1) = << >>

\* lines 39-135
load_excel_data(sheets) ==
  LET all_dfs == load_sheets(sheets, 1)
  IN concat([i \in 1..Len(all_dfs) |-> standardize_sheet(all_dfs[i])])

(***************************************************************************)
(* clean_column_names (src/data_cleaner.py 141-323).                       *)
(***************************************************************************)

LowerLetters == {"a", "b", "c", "d", "e", "f", "g", "h", "i", "j", "k", "l", "m", "n", "o", "p", "q", "r", "s", "t", "u", "v", "w", "x", "y", "z"}
UpperLetters == {"A", "B", "C", "D", "E", "F", "G", "H", "I", "J", "K", "L", "M", "N", "O", "P", "Q", "R", "S", "T", "U", "V", "W", "X", "Y", "Z"}
Digits == {"0", "1", "2", "3", "4", "5", "6", "7", "8", "9"}
DigitChars == <<"0", "1", "2", "3", "4", "5", "6", "7", "8", "9">>

\* str(n) for a natural number n
RECURSIVE IntToStr(_)
IntToStr(n) ==
  IF n < 10 THEN <<DigitChars[n + 1]>>
  ELSE IntToStr(n \div 10) \o <<DigitChars[(n % 10) + 1]>>

\* the columns of t at the positions kept, in that order
KeepColumns(t, kept) ==
  [cols |-> AsSeq([j \in 1..Len(kept) |-> t.cols[kept[j]]]),
   rows |-> AsSeq([k \in 1..NRows(t) |->
                     [t.rows[k] EXCEPT
                        !.vals = AsSeq([j \in 1..Len(kept) |->
                                          t.rows[k].vals[kept[j]]])]])]

\* the positions of t's columns, left to right
Positions(t) == [i \in 1..Len(t.cols) |-> i]

\* the table t under the labels cols
WithCols(t, cols) == [t EXCEPT !.cols = cols]

\* lines 147-156: a column is completely empty when every cell is missing or
\* every cell is ''
completely_empty(t, i) ==
  \/ \A k \in 1..NRows(t) : isna(t.rows[k].vals[i])
  \/ \A k \in 1..NRows(t) : t.rows[k].vals[i] = EmptyStr

drop_empty_columns(t) ==
  KeepColumns(t, SelectSeq(Positions(t), LAMBDA i : ~completely_empty(t, i)))

\* line 161
important_columns ==
  {<<"d","a","t","e">>,
   <<"c","r","e","a","t","e","d">>,
   <<"t","i","m","e","s","t","a","m","p">>,
   <<"d","a","t","e","_","c","o","n","t","a","c","t","e","d">>,
   <<"l","e","a","d","_","d","a","t","e">>,
   <<"c","o","n","t","a","c","t","_","d","a","t","e">>}

\* line 172: the cells that are missing, '' or 'None'
empty_count(t, i) ==
  Cardinality({k \in 1..NRows(t) :
                 \/ isna(t.rows[k].vals[i])
                 \/ t.rows[k].vals[i] = EmptyStr
                 \/ t.rows[k].vals[i] = S.None})

\* lines 163-174; empty_count >= len * 0.95 is compared in hundredths
meaningless(t, i) ==
  LET col_str == Strip(Lower(PyStr(t.cols[i])))
  IN /\ ~\E important \in important_columns : Contains(col_str, important)
     /\ 100 * empty_count(t, i) >= 95 * NRows(t)

drop_meaningless_columns(t) ==
  KeepColumns(t, SelectSeq(Positions(t), LAMBDA i : ~meaningless(t, i)))

\* lines 182-185
drop_unnamed_columns(t) ==
  KeepColumns(t, SelectSeq(Positions(t),
                           LAMBDA i : ~Contains(Lower(PyStr(t.cols[i])), S.unnamed)))

\* lines 188-197: strip, control characters to spaces, lower case, spaces to
\* underscores, everything outside [a-zA-Z0-9_] removed
normalize_label(col) ==
  LET stripped == Strip(col)
      spaced == [i \in 1..Len(stripped) |->
                   IF stripped[i] \in {"\n", "\r", "\t"} THEN " " ELSE stripped[i]]
      lowered == Lower(spaced)
      joined == [i \in 1..Len(lowered) |->
                   IF lowered[i] = " " THEN "_" ELSE lowered[i]]
  IN SelectSeq(joined,
               LAMBDA ch : ch \in LowerLetters \cup UpperLetters \cup Digits \cup {"_"})

\* how many of the labels before position i equal the label at i
EarlierSame(cols, i) == Cardinality({j \in 1..(i - 1) : cols[j] = cols[i]})

\* lines 200-209 (infix '_') and 292-301 (infix '_dup_'): every repeat of a
\* label gets the number of its repeat
suffix_repeats(cols, infix) ==
  [i \in 1..Len(cols) |->
     IF EarlierSame(cols, i) > 0
     THEN cols[i] \o infix \o IntToStr(EarlierSame(cols, i))
     ELSE cols[i]]

\* lines 213-219: a label already in the list built so far gets '_col_<i>',
\* i counted from 0
RECURSIVE suffix_col(_, _, _)
suffix_col(cols, i, final_columns) ==
  IF i > Len(cols) THEN final_columns
  ELSE suffix_col(
         cols, i + 1,
         Append(final_columns,
                IF \E j \in 1..Len(final_columns) : final_columns[j] = cols[i]
                THEN cols[i] \o S.col_infix \o IntToStr(i - 1)
                ELSE cols[i]))

\* lines 222-248, in the order of the dict
column_mapping ==
  << [old_name |-> <<"n","a","m","e">>,
      new_name |-> <<"f","u","l","l","_","n","a","m","e">>],
     [old_name |-> <<"f","i","r","s","t","_","n","a","m","e">>,
      new_name |-> <<"f","i","r","s","t","_","n","a","m","e">>],
     [old_name |-> <<"l","a","s","t","_","n","a","m","e">>,
      new_name |-> <<"l","a","s","t","_","n","a","m","e">>],
     [old_name |-> <<"e","m","a","i","l">>,
      new_name |-> <<"e","m","a","i","l">>],
     [old_name |-> <<"p","h","o","n","e">>,
      new_name |-> <<"p","h","o","n","e","_","n","u","m","b","e","r">>],
     [old_name |-> <<"m","o","b","i","l","e">>,
      new_name |-> <<"p","h","o","n","e","_","n","u","m","b","e","r">>],
     [old_name |-> <<"t","e","l","e","p","h","o","n","e">>,
      new_name |-> <<"p","h","o","n","e","_","n","u","m","b","e","r">>],
     [old_name |-> <<"c","o","m","p","a","n","y">>,
      new_name |-> <<"c","o","m","p","a","n","y","_","n","a","m","e">>],
     [old_name |-> <<"o","r","g","a","n","i","z","a","t","i","o","n">>,
      new_name |-> <<"c","o","m","p","a","n","y","_","n","a","m","e">>],
     [old_name |-> <<"b","u","s","i","n","e","s","s">>,
      new_name |-> <<"c","o","m","p","a","n","y","_","n","a","m","e">>],
     [old_name |-> <<"a","d","d","r","e","s","s">>,
      new_name |-> <<"a","d","d","r","e","s","s">>],
     [old_name |-> <<"c","i","t","y">>,
      new_name |-> <<"c","i","t","y">>],
     [old_name |-> <<"s","t","a","t","e">>,
      new_name |-> <<"s","t","a","t","e">>],
     [old_name |-> <<"c","o","u","n","t","r","y">>,
      new_name |-> <<"c","o","u","n","t","r","y">>],
     [old_name |-> <<"z","i","p">>,
      new_name |-> <<"p","o","s","t","a","l","_","c","o","d","e">>],
     [old_name |-> <<"p","o","s","t","a","l","_","c","o","d","e">>,
      new_name |-> <<"p","o","s","t","a","l","_","c","o","d","e">>],
     [old_name |-> <<"n","o","t","e","s">>,
      new_name |-> <<"n","o","t","e","s">>],
     [old_name |-> <<"c","o","m","m","e","n","t","s">>,
      new_name |-> <<"n","o","t","e","s">>],
     [old_name |-> <<"d","e","s","c","r","i","p","t","i","o","n">>,
      new_name |-> <<"n","o","t","e","s">>],
     [old_name |-> <<"s","o","u","r","c","e">>,
      new_name |-> <<"l","e","a","d","_","s","o","u","r","c","e">>],
     [old_name |-> <<"o","r","i","g","i","n">>,
      new_name |-> <<"l","e","a","d","_","s","o","u","r","c","e">>],
     [old_name |-> <<"d","a","t","e">>,
      new_name |-> <<"l","e","a","d","_","d","a","t","e">>],
     [old_name |-> <<"c","r","e","a","t","e","d">>,
      new_name |-> <<"l","e","a","d","_","d","a","t","e">>],
     [old_name |-> <<"t","i","m","e","s","t","a","m","p">>,
      new_name |-> <<"l","e","a","d","_","d","a","t","e">>],
     [old_name |-> <<"d","a","t","e","_","c","o","n","t","a","c","t","e","d">>,
      new_name |-> <<"c","o","n","t","a","c","t","_","d","a","t","e">>] >>

\* lines 264-279, in the order of the dict
additional_mappings ==
  << [old_name |-> <<"n","a","m","e"," ">>,
      new_name |-> <<"f","u","l","l","_","n","a","m","e">>],
     [old_name |-> <<"e","m","a","i","l"," ","i","d"," ">>,
      new_name |-> <<"e","m","a","i","l">>],
     [old_name |-> <<"p","h","o","n","e"," ","n","u","m","b","e","r"," ">>,
      new_name |-> <<"p","h","o","n","e","_","n","u","m","b","e","r">>],
     [old_name |-> <<"c","h","i","l","d"," ","a","g","e"," ">>,
      new_name |-> <<"c","h","i","l","d","_","a","g","e">>],
     [old_name |-> <<"c","i","t","y"," ">>,
      new_name |-> <<"c","i","t","y">>],
     [old_name |-> <<"l","e","a","d"," ","t","y","p","e"," ">>,
      new_name |-> <<"l","e","a","d","_","t","y","p","e">>],
     [old_name |-> <<"c","o","m","m","e","n","t","s"," ">>,
      new_name |-> <<"n","o","t","e","s">>],
     [old_name |-> <<"p","e","n","d","i","n","g"," ","a","c","t","i","o","n"," ">>,
      new_name |-> <<"p","e","n","d","i","n","g","_","a","c","t","i","o","n">>],
     [old_name |-> <<"f","u","r","t","h","e","r"," ","a","c","t","i","o","n"," ","c","o","m","m","e","n","t","s"," ">>,
      new_name |-> <<"f","u","r","t","h","e","r","_","a","c","t","i","o","n">>],
     [old_name |-> <<"s","t","o","r","y","t","e","l","l","i","n","g"," ","e","v","e","n","t"," ","-"," ","j","u","l","i","a"," ","d","o","n","a","l","d","s","o","n"," ","b","y"," ","s","h","e","f","a","l","i"," ","m","a","l","h","o","t","r","a"," ">>,
      new_name |-> <<"e","v","e","n","t","_","n","a","m","e">>],
     [old_name |-> <<"s","w","a","t","i"," ","a","g","a","r","w","a","l">>,
      new_name |-> <<"c","o","n","t","a","c","t","_","p","e","r","s","o","n">>],
     [old_name |-> <<"s","h","a","r","e","d"," ","d","e","t","a","i","l","s"," ","a","b","o","u","t"," ","t","h","e"," ","l","i","b","r","a","r","y">>,
      new_name |-> <<"l","i","b","r","a","r","y","_","d","e","t","a","i","l","s">>],
     [old_name |-> <<"d","a","t","e">>,
      new_name |-> <<"l","e","a","d","_","d","a","t","e">>],
     [old_name |-> <<"d","a","t","e"," ","c","o","n","t","a","c","t","e","d"," ">>,
      new_name |-> <<"c","o","n","t","a","c","t","_","d","a","t","e">>] >>

\* df.rename(columns={old: new}): every label equal to old becomes new
rename(cols, old, new) == [i \in 1..Len(cols) |-> IF cols[i] = old THEN new ELSE cols[i]]

\* line 252
matching_cols(cols, old_name) ==
  SelectSeq(cols, LAMBDA col : col = old_name \/ StartsWith(col, old_name \o S.underscore))

\* lines 255-259, from the i-th matching label on
RECURSIVE rename_matching(_, _, _, _)
rename_matching(cols, matching, new_name, i) ==
  IF i > Len(matching) \/ cols = << >> THEN cols
  ELSE rename_matching(
         rename(cols, matching[i],
                IF i = 1 THEN new_name
                ELSE new_name \o S.underscore \o IntToStr(i)),
         matching, new_name, i + 1)

\* lines 251-261, from the m-th entry of column_mapping on
RECURSIVE apply_column_mapping(_, _)
apply_column_mapping(cols, m) ==
  IF m > Len(column_mapping) \/ cols = << >> THEN cols
  ELSE apply_column_mapping(
         rename_matching(cols, matching_cols(cols, column_mapping[m].old_name),
                         column_mapping[m].new_name, 1),
         m + 1)

\* lines 282-284, from the m-th entry of additional_mappings on
RECURSIVE apply_additional_mappings(_, _)
apply_additional_mappings(cols, m) ==
  IF m > Len(additional_mappings) \/ cols = << >> THEN cols
  ELSE apply_additional_mappings(
         rename(cols, additional_mappings[m].old_name,
                additional_mappings[m].new_name),
         m + 1)

\* cleaned_df.columns.duplicated() has a True
has_duplicates(cols) == \E i, j \in 1..Len(cols) : i < j /\ cols[i] = cols[j]

\* lines 288-301
rename_duplicates(cols) ==
  IF has_duplicates(cols) THEN suffix_repeats(cols, S.dup_infix) ELSE cols

\* lines 312-315: the tests of the final cleanup that read the label alone
label_ok(col) ==
  /\ ~StartsWith(col, S.unnamed)
  /\ ~StartsWith(col, S.col_)
  /\ Len(col) < 50

\* line 316, for a label that names one column
has_values(t, i) == \E k \in 1..NRows(t) : notna(t.rows[k].vals[i])

\* lines 188-302: the labels after normalisation, suffixing and renaming
renamed_columns(cols) ==
  LET normalized == [i \in 1..Len(cols) |-> normalize_label(cols[i])]
      suffixed == suffix_col(suffix_repeats(normalized, S.underscore), 1, << >>)
      mapped == apply_additional_mappings(apply_column_mapping(suffixed, 1), 1)
  IN rename_duplicates(mapped)

\* lines 147-302
prepared_table(t) ==
  LET kept == drop_unnamed_columns(drop_meaningless_columns(drop_empty_columns(t)))
  IN WithCols(kept, renamed_columns(kept.cols))

\* line 316 on a label that still names two columns: cleaned_df[col] is a
\* table, its test is not a truth value, and ValueError is raised
clean_column_names_raises(t) ==
  LET p == prepared_table(t)
  IN \E i, j \in 1..Len(p.cols) : i # j /\ p.cols[i] = p.cols[j] /\ label_ok(p.cols[i])

\* lines 145-323
clean_column_names(t) ==
  LET p == prepared_table(t)
  IN KeepColumns(p, SelectSeq(Positions(p),
                              LAMBDA i : label_ok(p.cols[i]) /\ has_values(p, i)))

(***************************************************************************)
(* The field cleaners (src/data_cleaner.py 325-448).                       *)
(***************************************************************************)

\* clean_phone, were 10 and 11 digits left unformatted
clean_phone_digits(phone) ==
  IF isna(phone) THEN phone
  ELSE LET digits_only == SelectSeq(PyStr(phone), LAMBDA ch : ch \in Digits)
       IN IF Len(digits_only) > 0 THEN digits_only ELSE NA

\* clean_phone, were the first of any eleven digits dropped
clean_phone_eleven(phone) ==
  IF isna(phone) THEN phone
  ELSE LET digits_only == SelectSeq(PyStr(phone), LAMBDA ch : ch \in Digits)
           Format(d) == <<"(">> \o SubSeq(d, 1, 3) \o <<")", " ">> \o SubSeq(d, 4, 6)
                        \o <<"-">> \o SubSeq(d, 7, Len(d))
       IN IF Len(digits_only) = 10 THEN Format(digits_only)
          ELSE IF Len(digits_only) = 11 THEN Format(SubSeq(digits_only, 2, 11))
          ELSE IF Len(digits_only) > 0 THEN digits_only
          ELSE NA

\* lines 334-355
clean_phone(phone) ==
  IF isna(phone) THEN phone
  ELSE LET digits_only == SelectSeq(PyStr(phone), LAMBDA ch : ch \in Digits)
           Format(d) == <<"(">> \o SubSeq(d, 1, 3) \o <<")", " ">> \o SubSeq(d, 4, 6)
                        \o <<"-">> \o SubSeq(d, 7, Len(d))
       IN IF Len(digits_only) = 10 THEN Format(digits_only)
          ELSE IF Len(digits_only) = 11 /\ digits_only[1] = "1"
               THEN Format(SubSeq(digits_only, 2, 11))
          ELSE IF Len(digits_only) > 0 THEN digits_only
          ELSE NA

\* lines 325-360
clean_phone_numbers(t) ==
  IF ~HasCol(t, S.phone_number) THEN t
  ELSE SetCol(t, S.phone_number,
              [k \in 1..NRows(t) |-> clean_phone(Cell(t, k, S.phone_number))])

\* email_pattern, were one letter enough after the last dot
email_pattern_short(s) ==
  LET Letters == LowerLetters \cup UpperLetters
      Local == Letters \cup Digits \cup {".", "_", "%", "+", "-"}
      Domain == Letters \cup Digits \cup {".", "-"}
  IN \E a, d \in 1..Len(s) :
       /\ s[a] = "@" /\ s[d] = "."
       /\ 1 < a /\ a + 1 < d /\ d + 1 <= Len(s)
       /\ \A i \in 1..(a - 1) : s[i] \in Local
       /\ \A i \in (a + 1)..(d - 1) : s[i] \in Domain
       /\ \A i \in (d + 1)..Len(s) : s[i] \in Letters

\* line 382: ^[a-zA-Z0-9._%+-]+@[a-zA-Z0-9.-]+\.[a-zA-Z]{2,}$
email_pattern(s) ==
  LET Letters == LowerLetters \cup UpperLetters
      Local == Letters \cup Digits \cup {".", "_", "%", "+", "-"}
      Domain == Letters \cup Digits \cup {".", "-"}
  IN \E a, d \in 1..Len(s) :
       /\ s[a] = "@" /\ s[d] = "."
       /\ 1 < a /\ a + 1 < d /\ d + 2 <= Len(s)
       /\ \A i \in 1..(a - 1) : s[i] \in Local
       /\ \A i \in (a + 1)..(d - 1) : s[i] \in Domain
       /\ \A i \in (d + 1)..Len(s) : s[i] \in Letters

\* lines 371-387
clean_email(email) ==
  IF isna(email) THEN email
  ELSE LET email_str == Lower(Strip(PyStr(email)))
       IN IF email_pattern(email_str) THEN email_str ELSE NA

\* lines 362-392
clean_emails(t) ==
  IF ~HasCol(t, S.email) THEN t
  ELSE SetCol(t, S.email,
              [k \in 1..NRows(t) |-> clean_email(Cell(t, k, S.email))])

\* s.split(): the maximal runs of non-whitespace characters of s
RECURSIVE Split(_)
Split(s) ==
  LET rest == LStrip(s)
      ends == {i \in 1..Len(rest) : rest[i] \in Whitespace}
      stop == IF ends = {} THEN Len(rest) + 1
              ELSE CHOOSE i \in ends : \A j \in ends : i <= j
  IN IF rest = << >> THEN << >>
     ELSE <<SubSeq(rest, 1, stop - 1)>> \o Split(SubSeq(rest, stop, Len(rest)))

\* ' '.join(parts)
RECURSIVE JoinSpace(_)
JoinSpace(parts) ==
  IF parts = << >> THEN << >>
  ELSE IF Len(parts) = 1 THEN parts[1]
  ELSE parts[1] \o <<" ">> \o JoinSpace(Tail(parts))

ToUpper(ch) ==
  IF ch \in LowerLetters THEN CHOOSE u \in UpperLetters : UpperToLower[u] = ch ELSE ch

ToLower(ch) == IF ch \in UpperLetters THEN UpperToLower[ch] ELSE ch

\* s.title(): a letter is upper case after a character that is not a letter and
\* lower case after a letter
Title(s) ==
  [i \in 1..Len(s) |->
     IF i > 1 /\ s[i - 1] \in LowerLetters \cup UpperLetters
     THEN ToLower(s[i]) ELSE ToUpper(s[i])]

\* lines 403-417; re.sub(r'\s+', ' ', <stripped>) joins the words by one space
clean_name(name) ==
  IF isna(name) THEN name ELSE Title(JoinSpace(Split(PyStr(name))))

\* .astype(str).str.split().str[0]
first_token(name) ==
  LET parts == Split(PyStr(name)) IN IF parts = << >> THEN NA ELSE parts[1]

\* .astype(str).str.split().str[1:].str.join(' ')
remaining_tokens(name) ==
  LET parts == Split(PyStr(name))
  IN IF parts = << >> THEN EmptyStr ELSE JoinSpace(Tail(parts))

\* lines 394-431
clean_names(t) ==
  IF ~HasCol(t, S.full_name) THEN t
  ELSE LET named == SetCol(t, S.full_name,
                           [k \in 1..NRows(t) |-> clean_name(Cell(t, k, S.full_name))])
           first == IF HasCol(named, S.first_name) THEN named
                    ELSE SetCol(named, S.first_name,
                                [k \in 1..NRows(named) |->
                                   first_token(Cell(named, k, S.full_name))])
       IN IF HasCol(first, S.last_name) THEN first
          ELSE SetCol(first, S.last_name,
                      [k \in 1..NRows(first) |->
                         remaining_tokens(Cell(first, k, S.full_name))])

\* lines 443-445
clean_address(x) == IF notna(x) THEN Title(Strip(PyStr(x))) ELSE NA

address_columns == <<S.address, S.city, S.state, S.country, S.postal_code>>

\* lines 441-445, from the i-th address column on
RECURSIVE clean_address_columns(_, _)
clean_address_columns(t, i) ==
  IF i > Len(address_columns) THEN t
  ELSE clean_address_columns(
         IF HasCol(t, address_columns[i])
         THEN SetCol(t, address_columns[i],
                     [k \in 1..NRows(t) |->
                        clean_address(Cell(t, k, address_columns[i]))])
         ELSE t,
         i + 1)

\* lines 433-448
clean_addresses(t) == clean_address_columns(t, 1)

(***************************************************************************)
(* AI enrichment (src/data_cleaner.py 644-742).  What the service answers  *)
(* to one request is an input of the model:                                *)
(*   kind "unavailable" : the request raises                               *)
(*   kind "not_json"    : the content is not JSON                          *)
(*   kind "not_object"  : the content is JSON, but not an object           *)
(*   kind "object"      : a JSON object; a field is a text or NA when the  *)
(*                        object does not have it; library_benefits is a   *)
(*                        list of texts, absent, or something else         *)
(***************************************************************************)
Unknown == <<"U","n","k","n","o","w","n">>
Standard == <<"S","t","a","n","d","a","r","d">>
Segment1 == <<"p","a","r","e","n","t">>
Strategy1 == <<"E","v","e","n","t","s">>
Benefit1 == <<"B","o","o","k","s">>
Benefit2 == <<"E","v","e","n","t","s">>

\* ai_columns, were the potential value written to the priority field
ai_columns_priority ==
  <<S.ai_customer_segment, S.priority, S.ai_engagement_strategy,
    S.ai_library_benefits>>

ai_columns ==
  <<S.ai_customer_segment, S.ai_potential_value, S.ai_engagement_strategy,
    S.ai_library_benefits>>

\* '; '.join(items)
RECURSIVE JoinSemi(_)
JoinSemi(items) ==
  IF items = << >> THEN << >>
  ELSE IF Len(items) = 1 THEN items[1]
  ELSE items[1] \o <<";", " ">> \o JoinSemi(Tail(items))

\* ai_insights.get(field, default)
GetOr(v, default) == IF v = NA THEN default ELSE v

\* lines 696-712: how many of the four assignments of lines 701-704 are done
\* before the request, the parse or an assignment fails
fields_set(response) ==
  IF response.kind # "object" THEN 0
  ELSE IF response.benefits_kind = "other" THEN 3
  ELSE 4

\* lines 701-704: the value of the j-th enrichment field
field_value(response, j) ==
  CASE j = 1 -> GetOr(response.customer_segment, Unknown)
    [] j = 2 -> GetOr(response.potential_value, Medium)
    [] j = 3 -> GetOr(response.engagement_strategy, Standard)
    [] j = 4 -> IF response.benefits_kind = "list"
                THEN JoinSemi(response.library_benefits) ELSE EmptyStr

\* lines 644-714: the enrichment fields of one lead, NA where it has none
enrich_lead_with_ai(response) ==
  [j \in 1..4 |-> IF j <= fields_set(response) THEN field_value(response, j) ELSE NA]

\* lines 727-738: the leads as dicts, enriched one by one, and the table
\* pd.DataFrame builds from them: the union of their keys, a fresh index
enrich_rows(t, responses) ==
  LET widest == CHOOSE m \in 0..4 :
                  /\ \A k \in 1..NRows(t) : fields_set(responses[k]) <= m
                  /\ m = 0 \/ \E k \in 1..NRows(t) : fields_set(responses[k]) = m
      added == SelectSeq(SubSeq(ai_columns, 1, widest), LAMBDA c : ~HasCol(t, c))
      with_fields == [cols |-> t.cols \o added,
                      rows |-> AsSeq([k \in 1..NRows(t) |->
                                        t.rows[k].vals
                                        \o [j \in 1..Len(added) |-> NA]])]
      Value(k, c) ==
        LET j == CHOOSE i \in 1..4 : ai_columns[i] = c
        IN IF j <= fields_set(responses[k])
           THEN enrich_lead_with_ai(responses[k])[j]
           ELSE RowGet(t, k, c)
  IN IF NRows(t) = 0 THEN [cols |-> << >>, rows |-> << >>]
     ELSE MkTable(with_fields.cols,
                  [k \in 1..NRows(t) |->
                     [i \in 1..Len(with_fields.cols) |->
                        IF \E j \in 1..4 : ai_columns[j] = with_fields.cols[i]
                        THEN Value(k, with_fields.cols[i])
                        ELSE with_fields.rows[k][i]]])

Unavailable ==
  [kind |-> "unavailable", customer_segment |-> NA, potential_value |-> NA,
   engagement_strategy |-> NA, benefits_kind |-> "absent", library_benefits |-> << >>]
NotJson == [Unavailable EXCEPT !.kind = "not_json"]
NotObject == [Unavailable EXCEPT !.kind = "not_object"]
EmptyObject == [Unavailable EXCEPT !.kind = "object"]
FullObject ==
  [kind |-> "object", customer_segment |-> Segment1, potential_value |-> High,
   engagement_strategy |-> Strategy1, benefits_kind |-> "list",
   library_benefits |-> <<Benefit1, Benefit2>>]
BadBenefits == [FullObject EXCEPT !.benefits_kind = "other", !.library_benefits = << >>]

Responses == {Unavailable, NotJson, NotObject, EmptyObject, FullObject, BadBenefits}

(***************************************************************************)
(* Inputs of the unit specifications: cleaned tables of at most MaxRows    *)
(* rows over small sets of cell values.                                    *)
(***************************************************************************)
MaxRows == 2

\* the latest reading of the clock
MaxTime == 1

P1 == <<"(","5","5","5",")"," ","1","2","3","-","4","5","6","7">>
P2 == <<"1","2","3">>
E1 == <<"j","@","x",".","c","o">>
N1 == <<"A","l">>
C1 == <<"P","u","n","e">>
SheetContacts == <<"C","o","n","t","a","c","t","s">>
SheetMyLeads == <<"M","y"," ","L","e","a","d","s">>
A1 == <<"4","-","6">>
T1 == <<"P","a","r","e","n","t">>
Blank == <<" ">>
Contacted == <<"C","o","n","t","a","c","t","e","d">>
D1 == <<"2","0","2","4","-","0","1","-","0","5">>

PhoneValues == {NA, P1, P2}
EmailValues == {NA, E1}
NameValues == {NA, N1}
CityValues == {NA, EmptyStr, C1}
SheetValues == {SheetContacts, SheetMyLeads}

ValuesOf(c) ==
  CASE c = S.phone_number -> PhoneValues
    [] c = S.email -> EmailValues
    [] c = S.full_name -> NameValues
    [] c = S.city -> CityValues
    [] c = S.source_sheet -> SheetValues
    [] c = S.child_age -> {NA, Blank, A1}
    [] c = S.lead_type -> {NA, T1}
    [] c = S.lead_status -> {Contacted}
    [] c = S.follow_up_count -> {3}
    [] c = S.last_contact_date -> {D1}
    [] c = S.follow_up_date -> {D1}
    [] c = S.lead_score -> {5}
    [] c = S.priority -> {High}

RECURSIVE RowVals(_)
RowVals(cols) ==
  IF cols = << >> THEN {<< >>}
  ELSE {<<v>> \o r : v \in ValuesOf(Head(cols)), r \in RowVals(Tail(cols))}

InCols(cs) ==
  SelectSeq(<<S.full_name, S.phone_number, S.email, S.city, S.child_age,
              S.lead_type, S.source_sheet, S.lead_status, S.follow_up_count,
              S.last_contact_date, S.follow_up_date, S.lead_score, S.priority>>,
            LAMBDA c : c \in cs)

\* t is a table of 1..MaxRows rows over some of the identity columns and the
\* sheet column
IsDedupTable(t) ==
  \E cs \in SUBSET {S.full_name, S.phone_number, S.email, S.source_sheet} :
    \E n \in 1..MaxRows :
      \E f \in [1..n -> RowVals(InCols(cs))] :
        t = MkTable(InCols(cs), f)

NoTable == [cols |-> << >>, rows |-> << >>]

(***************************************************************************)
(* SpecDedup: remove_duplicates applied to any table of DedupTables.       *)
(***************************************************************************)
DedupInit ==
  /\ pc = "start"
  /\ IsDedupTable(df)
  /\ out = NoTable
  /\ cleaning_log = << >>
  /\ clock = 0
  /\ workbook = << >>
  /\ cleaned_data = << >>
  /\ enable_ai_enrichment = FALSE
  /\ openai_api_key = FALSE
  /\ ai_responses = << >>
  /\ NoCrm

RemoveDuplicates ==
  /\ pc = "start"
  /\ ~remove_duplicates_raises(df)
  /\ \E p \in sort_orders(ranked_table(df)) :
       LET result == remove_duplicates(df, p) IN
       /\ out' = result
       /\ cleaning_log' = log_removed(cleaning_log, NRows(df), result)
  /\ pc' = "done"
  /\ UNCHANGED <<df, clock, pipeline_vars>>

RemoveDuplicatesKeyError ==
  /\ pc = "start"
  /\ remove_duplicates_raises(df)
  /\ pc' = "KeyError"
  /\ UNCHANGED <<df, out, cleaning_log, clock, pipeline_vars>>

DedupNext == RemoveDuplicates \/ RemoveDuplicatesKeyError

SpecDedup == DedupInit /\ [][DedupNext]_vars

(***************************************************************************)
(* SpecScore: add_metadata applied to any table of score inputs.           *)
(***************************************************************************)
MaxScoreRows == 1

IsScoreTable(t) ==
  \E cs \in SUBSET {S.full_name, S.phone_number, S.email, S.city, S.child_age,
                    S.lead_type} :
    \E n \in 1..MaxScoreRows :
      \E f \in [1..n -> RowVals(InCols(cs))] :
        t = MkTable(InCols(cs), f)

ScoreInit ==
  /\ pc = "start"
  /\ IsScoreTable(df)
  /\ out = NoTable
  /\ cleaning_log = << >>
  /\ clock = 0
  /\ workbook = << >>
  /\ cleaned_data = << >>
  /\ enable_ai_enrichment = FALSE
  /\ openai_api_key = FALSE
  /\ ai_responses = << >>
  /\ NoCrm

AddMetadata ==
  /\ pc = "start"
  /\ \E now1, now2 \in clock..MaxTime :
       /\ now1 <= now2
       /\ out' = add_metadata(df, now1, now2)
       /\ clock' = now2
  /\ cleaning_log' = Append(cleaning_log,
                            LogEntry("Added metadata columns for CRM tracking", 0))
  /\ pc' = "done"
  /\ UNCHANGED <<df, pipeline_vars>>

ScoreNext == AddMetadata

SpecScore == ScoreInit /\ [][ScoreNext]_vars

(***************************************************************************)
(* SpecMeta: add_metadata applied to a table that may already hold         *)
(* tracking columns, and then to the table it returned.                    *)
(***************************************************************************)
tracking_columns ==
  {S.lead_status, S.follow_up_count, S.last_contact_date, S.follow_up_date,
   S.lead_score, S.priority}

IsMetaTable(t) ==
  \E cs \in SUBSET {S.phone_number, S.email, S.child_age} :
    \E held \in {{}, {S.lead_status, S.lead_score}, tracking_columns} :
      \E n \in 1..MaxScoreRows :
        \E f \in [1..n -> RowVals(InCols(cs \cup held))] :
          t = MkTable(InCols(cs \cup held), f)

MetaInit ==
  /\ pc = "start"
  /\ IsMetaTable(df)
  /\ out = NoTable
  /\ cleaning_log = << >>
  /\ clock = 0
  /\ workbook = << >>
  /\ cleaned_data = << >>
  /\ enable_ai_enrichment = FALSE
  /\ openai_api_key = FALSE
  /\ ai_responses = << >>
  /\ NoCrm

\* add_metadata called on the table it returned: df is now that table
AddMetadataAgain ==
  /\ pc = "done"
  /\ \E now1, now2 \in clock..MaxTime :
       /\ now1 <= now2
       /\ out' = add_metadata(out, now1, now2)
       /\ clock' = now2
  /\ df' = out
  /\ cleaning_log' = Append(cleaning_log,
                            LogEntry("Added metadata columns for CRM tracking", 0))
  /\ pc' = "again"
  /\ UNCHANGED pipeline_vars

MetaNext == AddMetadata \/ AddMetadataAgain

SpecMeta == MetaInit /\ [][MetaNext]_vars

(***************************************************************************)
(* SpecEnrich: enrich_all_leads_with_ai applied to a scored table of at    *)
(* most MaxRows leads, with and without an API key.                        *)
(***************************************************************************)
EnrichLeads == {<<N1, P1, E1>>, <<NA, P2, NA>>}

IsEnrichTable(t) ==
  \E n \in 1..MaxRows :
    \E f \in [1..n -> EnrichLeads] :
      t = add_metadata(MkTable(<<S.full_name, S.phone_number, S.email>>, f), 0, 0)

EnrichInit ==
  /\ pc = "start"
  /\ IsEnrichTable(df)
  /\ openai_api_key \in BOOLEAN
  /\ out = NoTable
  /\ cleaning_log = << >>
  /\ clock = 0
  /\ workbook = << >>
  /\ cleaned_data = << >>
  /\ enable_ai_enrichment = TRUE
  /\ ai_responses = << >>
  /\ NoCrm

\* lines 724-742
EnrichAll ==
  /\ pc = "start"
  /\ openai_api_key
  /\ \E responses \in [1..NRows(df) -> Responses] :
       /\ out' = enrich_rows(df, responses)
       /\ ai_responses' = AsSeq(responses)
  /\ cleaning_log' = Append(cleaning_log,
                            LogEntry("AI enrichment completed for all leads", 0))
  /\ pc' = "done"
  /\ UNCHANGED <<df, clock, workbook, cleaned_data, enable_ai_enrichment,
                 openai_api_key, crm_vars>>

\* lines 720-722
EnrichNotConfigured ==
  /\ pc = "start"
  /\ ~openai_api_key
  /\ out' = df
  /\ pc' = "done"
  /\ UNCHANGED <<df, cleaning_log, clock, pipeline_vars>>

EnrichNext == EnrichAll \/ EnrichNotConfigured

SpecEnrich == EnrichInit /\ [][EnrichNext]_vars

(***************************************************************************)
(* SpecField: clean_phone_numbers or clean_emails applied to a table of    *)
(* at most MaxFieldRows cells of raw phone numbers or of raw emails.  A    *)
(* number is in the table as the text str() gives it.                      *)
(***************************************************************************)
MaxFieldRows == 1

RawPhones ==
  {NA}
  \cup {pre \o body \o post :
          pre \in {<< >>, <<"+","1"," ">>, <<"2">>},
          body \in {<<"(","5","5","5",")"," ","1","2","3","-","4","5","6","7">>,
                    <<"5","5","5",".","1","2","3",".","4","5","6","7">>,
                    <<"1","2","3">>, << >>, <<" ">>, <<"a","b","c">>},
          post \in {<< >>, <<".","0">>, <<" ","x">>}}

RawEmails ==
  {NA, <<"n","o","t","-","a","n","-","e","m","a","i","l">>}
  \cup {pad \o local \o at \o domain \o tld \o pad :
          pad \in {<< >>, <<" ">>},
          local \in {<<"F","o","o">>, <<"a",".","b">>, << >>, <<"a"," ","b">>},
          at \in {<<"@">>, << >>},
          domain \in {<<"B","a","r">>, << >>},
          tld \in {<<".","C","O","M">>, <<".","c">>, << >>, <<".","c","0","m">>}}

IsFieldTable(t) ==
  \E n \in 1..MaxFieldRows :
    \/ \E f \in [1..n -> RawPhones] :
         t = MkTable(<<S.phone_number>>, [k \in 1..n |-> <<f[k]>>])
    \/ \E f \in [1..n -> RawEmails] :
         t = MkTable(<<S.email>>, [k \in 1..n |-> <<f[k]>>])

FieldInit ==
  /\ pc = "start"
  /\ IsFieldTable(df)
  /\ out = NoTable
  /\ cleaning_log = << >>
  /\ clock = 0
  /\ workbook = << >>
  /\ cleaned_data = << >>
  /\ enable_ai_enrichment = FALSE
  /\ openai_api_key = FALSE
  /\ ai_responses = << >>
  /\ NoCrm

\* lines 325-360
FieldCleanPhoneNumbers ==
  /\ pc = "start"
  /\ out' = clean_phone_numbers(df)
  /\ cleaning_log' = IF HasCol(df, S.phone_number)
                     THEN Append(cleaning_log,
                                 LogEntry("Phone numbers cleaned and standardized", 0))
                     ELSE cleaning_log
  /\ pc' = "phone_done"
  /\ UNCHANGED <<df, clock, pipeline_vars>>

\* lines 362-392
FieldCleanEmails ==
  /\ pc = "start"
  /\ out' = clean_emails(df)
  /\ cleaning_log' = IF HasCol(df, S.email)
                     THEN Append(cleaning_log,
                                 LogEntry("Email addresses cleaned and validated", 0))
                     ELSE cleaning_log
  /\ pc' = "email_done"
  /\ UNCHANGED <<df, clock, pipeline_vars>>

FieldNext == FieldCleanPhoneNumbers \/ FieldCleanEmails

SpecField == FieldInit /\ [][FieldNext]_vars

(***************************************************************************)
(* SpecCompleteness: remove_duplicates applied to tables of at most        *)
(* MaxScoreRows rows over the four scored columns, whose cells are         *)
(* missing, empty, blank or filled.                                        *)
(***************************************************************************)
CompletenessValuesOf(c) == ValuesOf(c) \cup {EmptyStr, Blank}

RECURSIVE CompletenessRowVals(_)
CompletenessRowVals(cols) ==
  IF cols = << >> THEN {<< >>}
  ELSE {<<v>> \o r : v \in CompletenessValuesOf(Head(cols)),
                     r \in CompletenessRowVals(Tail(cols))}

IsCompletenessTable(t) ==
  \E cs \in SUBSET {S.full_name, S.phone_number, S.email, S.city} :
    \E n \in 1..MaxScoreRows :
      \E f \in [1..n -> CompletenessRowVals(InCols(cs))] :
        t = MkTable(InCols(cs), f)

CompletenessInit ==
  /\ pc = "start"
  /\ IsCompletenessTable(df)
  /\ out = NoTable
  /\ cleaning_log = << >>
  /\ clock = 0
  /\ workbook = << >>
  /\ cleaned_data = << >>
  /\ enable_ai_enrichment = FALSE
  /\ openai_api_key = FALSE
  /\ ai_responses = << >>
  /\ NoCrm

SpecCompleteness == CompletenessInit /\ [][DedupNext]_vars

(***************************************************************************)
(* Spec: one call of clean_all_data (src/data_cleaner.py 744-782) on a     *)
(* workbook of at most MaxSheets sheets of at most MaxSheetRows rows, one  *)
(* action per stage.  pc names the stage that runs next; df is the local   *)
(* table of the call and out the table it returns; ai_responses is what    *)
(* the enrichment service answered, lead by lead.                          *)
(***************************************************************************)
MaxSheets == 2

MaxSheetRows == 1

H_Name == <<"N","a","m","e">>
H_Phone == <<"P","h","o","n","e">>
H_Email == <<"E","m","a","i","l">>
H_City == <<"C","i","t","y">>
JohnSmith == <<"J","o","h","n"," ","S","m","i","t","h">>
RawPhone == <<"5","5","5","1","2","3","4","5","6","7">>
JohnEmail == <<"j","o","h","n","@","x",".","c","o","m">>
RawCity == <<"p","u","n","e">>

\* the name of the i-th sheet of a workbook: Sheet A, Sheet B, ...
SheetName(i) == <<"S","h","e","e","t"," ">> \o <<SubSeq(<<"A","B","C","D">>, i, i)[1]>>

Layouts == {<<H_Name, H_Phone>>, <<H_Name, H_Phone, H_Email>>, <<H_City>>}

CellsOf(h) ==
  CASE h = H_Name -> {JohnSmith, NA}
    [] h = H_Phone -> {RawPhone, NA}
    [] h = H_Email -> {JohnEmail, NA}
    [] h = H_City -> {RawCity}

RECURSIVE SheetRows(_)
SheetRows(cols) ==
  IF cols = << >> THEN {<< >>}
  ELSE {<<v>> \o r : v \in CellsOf(Head(cols)), r \in SheetRows(Tail(cols))}

\* sheet i is unreadable, or has one of the layouts and 0..MaxSheetRows rows
SheetsAt(i) ==
  {[name |-> SheetName(i), readable |-> FALSE, cols |-> << >>, rows |-> << >>]}
  \cup UNION {UNION {{[name |-> SheetName(i), readable |-> TRUE, cols |-> cols,
                       rows |-> AsSeq(f)] : f \in [1..n -> SheetRows(cols)]}
                     : n \in 0..MaxSheetRows}
              : cols \in Layouts}

IsWorkbook(w) ==
  \E n \in 1..MaxSheets :
    \E f \in [1..n -> UNION {SheetsAt(i) : i \in 1..n}] :
      /\ \A i \in 1..n : f[i] \in SheetsAt(i)
      /\ w = AsSeq(f)

\* self.cleaned_data = None
None == << >>

\* the table a call made earlier on the same cleaner has stored
EarlierResult == MkTable(<<S.full_name>>, << <<N1>> >>)

PipelineInit ==
  /\ pc = "load_excel_data"
  /\ IsWorkbook(workbook)
  /\ enable_ai_enrichment \in BOOLEAN
  /\ openai_api_key \in BOOLEAN
  /\ df = NoTable
  /\ out = NoTable
  /\ cleaned_data \in {None, <<EarlierResult>>}
  /\ cleaning_log = << >>
  /\ clock = 0
  /\ ai_responses = << >>
  /\ NoCrm

inputs == <<workbook, enable_ai_enrichment, openai_api_key>>

\* line 752
LoadExcelData ==
  /\ pc = "load_excel_data"
  /\ ~load_excel_data_raises(workbook)
  /\ df' = load_excel_data(workbook)
  /\ pc' = "clean_column_names"
  /\ UNCHANGED <<out, cleaned_data, cleaning_log, clock, inputs, ai_responses, crm_vars>>

\* line 752, lines 59-60 and 137-139: the error leaves clean_all_data
LoadExcelDataValueError ==
  /\ pc = "load_excel_data"
  /\ load_excel_data_raises(workbook)
  /\ pc' = "ValueError"
  /\ UNCHANGED <<df, out, cleaned_data, cleaning_log, clock, inputs, ai_responses, crm_vars>>

\* line 756
CleanColumnNames ==
  /\ pc = "clean_column_names"
  /\ ~clean_column_names_raises(df)
  /\ df' = clean_column_names(df)
  /\ cleaning_log' = Append(cleaning_log,
                            LogEntry("Column names cleaned and standardized", 0))
  /\ pc' = "clean_phone_numbers"
  /\ UNCHANGED <<out, cleaned_data, clock, inputs, ai_responses, crm_vars>>

\* line 759
CleanPhoneNumbers ==
  /\ pc = "clean_phone_numbers"
  /\ df' = clean_phone_numbers(df)
  /\ cleaning_log' = IF HasCol(df, S.phone_number)
                     THEN Append(cleaning_log,
                                 LogEntry("Phone numbers cleaned and standardized", 0))
                     ELSE cleaning_log
  /\ pc' = "clean_emails"
  /\ UNCHANGED <<out, cleaned_data, clock, inputs, ai_responses, crm_vars>>

\* line 762
CleanEmails ==
  /\ pc = "clean_emails"
  /\ df' = clean_emails(df)
  /\ cleaning_log' = IF HasCol(df, S.email)
                     THEN Append(cleaning_log,
                                 LogEntry("Email addresses cleaned and validated", 0))
                     ELSE cleaning_log
  /\ pc' = "clean_names"
  /\ UNCHANGED <<out, cleaned_data, clock, inputs, ai_responses, crm_vars>>

\* line 765
CleanNames ==
  /\ pc = "clean_names"
  /\ df' = clean_names(df)
  /\ cleaning_log' = IF HasCol(df, S.full_name)
                     THEN Append(cleaning_log,
                                 LogEntry("Names cleaned and standardized", 0))
                     ELSE cleaning_log
  /\ pc' = "clean_addresses"
  /\ UNCHANGED <<out, cleaned_data, clock, inputs, ai_responses, crm_vars>>

\* CleanAddresses, were the metadata added next and the duplicates left in
CleanAddresses_then_metadata ==
  /\ pc = "clean_addresses"
  /\ df' = clean_addresses(df)
  /\ cleaning_log' = Append(cleaning_log,
                            LogEntry("Addresses cleaned and standardized", 0))
  /\ pc' = "add_metadata"
  /\ UNCHANGED <<out, cleaned_data, clock, inputs, ai_responses, crm_vars>>

\* line 768
CleanAddresses ==
  /\ pc = "clean_addresses"
  /\ df' = clean_addresses(df)
  /\ cleaning_log' = Append(cleaning_log,
                            LogEntry("Addresses cleaned and standardized", 0))
  /\ pc' = "remove_duplicates"
  /\ UNCHANGED <<out, cleaned_data, clock, inputs, ai_responses, crm_vars>>

\* line 771
StageRemoveDuplicates ==
  /\ pc = "remove_duplicates"
  /\ ~remove_duplicates_raises(df)
  /\ \E p \in sort_orders(ranked_table(df)) :
       LET result == remove_duplicates(df, p) IN
       /\ df' = result
       /\ cleaning_log' = log_removed(cleaning_log, NRows(df), result)
  /\ pc' = "add_metadata"
  /\ UNCHANGED <<out, cleaned_data, clock, inputs, ai_responses, crm_vars>>

\* StageRemoveDuplicatesKeyError, were the table stored as it stands when the
\* stage raises
StageRemoveDuplicatesKeyError_stored ==
  /\ pc = "remove_duplicates"
  /\ remove_duplicates_raises(df)
  /\ cleaned_data' = <<df>>
  /\ pc' = "KeyError"
  /\ UNCHANGED <<df, out, cleaning_log, clock, inputs, ai_responses, crm_vars>>

\* line 771, when the table has none of the three identity columns
StageRemoveDuplicatesKeyError ==
  /\ pc = "remove_duplicates"
  /\ remove_duplicates_raises(df)
  /\ pc' = "KeyError"
  /\ UNCHANGED <<df, out, cleaned_data, cleaning_log, clock, inputs, ai_responses, crm_vars>>

\* line 772
StageAddMetadata ==
  /\ pc = "add_metadata"
  /\ \E now1, now2 \in clock..MaxTime :
       /\ now1 <= now2
       /\ df' = add_metadata(df, now1, now2)
       /\ clock' = now2
  /\ cleaning_log' = Append(cleaning_log,
                            LogEntry("Added metadata columns for CRM tracking", 0))
  /\ pc' = "enrich_all_leads_with_ai"
  /\ UNCHANGED <<out, cleaned_data, inputs, ai_responses, crm_vars>>

\* lines 775-777 and 720-742: every lead is sent to the service
EnrichAllLeadsWithAI ==
  /\ pc = "enrich_all_leads_with_ai"
  /\ enable_ai_enrichment /\ openai_api_key
  /\ \E responses \in [1..NRows(df) -> Responses] :
       /\ df' = enrich_rows(df, responses)
       /\ ai_responses' = AsSeq(responses)
  /\ cleaning_log' = Append(cleaning_log,
                            LogEntry("AI enrichment completed for all leads", 0))
  /\ pc' = "finish"
  /\ UNCHANGED <<out, cleaned_data, clock, inputs, crm_vars>>

\* line 775 when enrichment is off, lines 720-722 when there is no API key
SkipEnrichment ==
  /\ pc = "enrich_all_leads_with_ai"
  /\ ~(enable_ai_enrichment /\ openai_api_key)
  /\ pc' = "finish"
  /\ UNCHANGED <<df, out, cleaned_data, cleaning_log, clock, inputs, ai_responses, crm_vars>>

\* lines 779-782
Finish ==
  /\ pc = "finish"
  /\ cleaned_data' = <<df>>
  /\ out' = df
  /\ pc' = "done"
  /\ UNCHANGED <<df, cleaning_log, clock, inputs, ai_responses, crm_vars>>

Next ==
  \/ LoadExcelData
  \/ LoadExcelDataValueError
  \/ CleanColumnNames
  \/ CleanPhoneNumbers
  \/ CleanEmails
  \/ CleanNames
  \/ CleanAddresses
  \/ StageRemoveDuplicates
  \/ StageRemoveDuplicatesKeyError
  \/ StageAddMetadata
  \/ EnrichAllLeadsWithAI
  \/ SkipEnrichment
  \/ Finish

Spec == PipelineInit /\ [][Next]_vars

(***************************************************************************)
(* SpecColumns: load_excel_data, then clean_column_names, then             *)
(* clean_column_names once more, on a workbook of one sheet.  The sheet is *)
(* loaded in all-sheets mode (lines 38-135) or by its name (lines 33-37).  *)
(* A short sheet has two columns and at most MaxColumnRows rows; a tall    *)
(* sheet has TallRows rows and a second column that is filled in its first *)
(* one or two rows only.                                                   *)
(***************************************************************************)
MaxColumnRows == 1
TallRows == 20

H_Mobile == <<"M","o","b","i","l","e">>
H_ContactName == <<"C","o","n","t","a","c","t"," ","N","a","m","e">>
H_DateContacted == <<"D","a","t","e"," ","c","o","n","t","a","c","t","e","d">>
H_Remarks == <<"R","e","m","a","r","k","s">>
H_Created == <<"C","r","e","a","t","e","d">>
h_phone == <<"p","h","o","n","e">>
h_mobile == <<"m","o","b","i","l","e">>

RawLabels ==
  {H_Phone, H_Mobile, H_ContactName, H_DateContacted, H_Remarks, H_Created,
   h_phone, h_mobile}

V1 == <<"1","1","1">>
V2 == <<"2","2","2">>

ShortSheets ==
  {[name |-> SheetContacts, readable |-> TRUE, cols |-> <<a, b>>,
    rows |-> [k \in 1..n |-> <<f[k], g[k]>>]] :
     <<a, b>> \in {p \in RawLabels \X RawLabels : p[1] # p[2]},
     <<n, f, g>> \in UNION {{n} \X [1..n -> {V1, NA}] \X [1..n -> {V2, NA, EmptyStr}] :
                              n \in 1..MaxColumnRows}}

TallSheets ==
  {[name |-> SheetContacts, readable |-> TRUE, cols |-> <<H_Remarks, b>>,
    rows |-> [k \in 1..TallRows |-> <<V1, IF k <= filled THEN V2 ELSE NA>>]] :
     b \in {H_Mobile, H_Created}, filled \in 1..2}

EmptySheets ==
  {[name |-> SheetContacts, readable |-> r, cols |-> <<H_Phone>>, rows |-> << >>] :
     r \in BOOLEAN}

ColumnsInit ==
  /\ \/ /\ pc = "load_all_sheets"
        /\ \E sheet \in ShortSheets \cup TallSheets \cup EmptySheets :
             workbook = <<sheet>>
     \/ /\ pc = "load_sheet"
        /\ \E sheet \in ShortSheets \cup TallSheets : workbook = <<sheet>>
  /\ df = NoTable
  /\ out = NoTable
  /\ cleaning_log = << >>
  /\ clock = 0
  /\ cleaned_data = << >>
  /\ enable_ai_enrichment = FALSE
  /\ openai_api_key = FALSE
  /\ ai_responses = << >>
  /\ NoCrm

\* lines 38-135
ColumnsLoadAllSheets ==
  /\ pc = "load_all_sheets"
  /\ ~load_excel_data_raises(workbook)
  /\ df' = load_excel_data(workbook)
  /\ pc' = "clean_column_names"
  /\ UNCHANGED <<out, cleaning_log, clock, pipeline_vars>>

\* lines 59-60 and 137-139
ColumnsLoadValueError ==
  /\ pc = "load_all_sheets"
  /\ load_excel_data_raises(workbook)
  /\ pc' = "ValueError"
  /\ UNCHANGED <<df, out, cleaning_log, clock, pipeline_vars>>

\* lines 33-37 and 122-135: the named sheet as read, its labels untouched
ColumnsLoadSheet ==
  /\ pc = "load_sheet"
  /\ df' = read_sheet(workbook[1])
  /\ pc' = "clean_column_names"
  /\ UNCHANGED <<out, cleaning_log, clock, pipeline_vars>>

\* lines 141-323
ColumnsClean ==
  /\ pc = "clean_column_names"
  /\ ~clean_column_names_raises(df)
  /\ out' = clean_column_names(df)
  /\ cleaning_log' = Append(cleaning_log,
                            LogEntry("Column names cleaned and standardized", 0))
  /\ pc' = "normalized"
  /\ UNCHANGED <<df, clock, pipeline_vars>>

\* lines 141-323, on the table the first call returned
ColumnsCleanAgain ==
  /\ pc = "normalized"
  /\ ~clean_column_names_raises(out)
  /\ df' = out
  /\ out' = clean_column_names(out)
  /\ cleaning_log' = Append(cleaning_log,
                            LogEntry("Column names cleaned and standardized", 0))
  /\ pc' = "normalized_again"
  /\ UNCHANGED <<clock, pipeline_vars>>

ColumnsNext ==
  \/ ColumnsLoadAllSheets
  \/ ColumnsLoadValueError
  \/ ColumnsLoadSheet
  \/ ColumnsClean
  \/ ColumnsCleanAgain

SpecColumns == ColumnsInit /\ [][ColumnsNext]_vars

(***************************************************************************)
(* LeadManager (src/lead_manager.py 16-131, 208-229, 477-485).             *)
(* leads_data is None or <<t>> with t the table of the leads; a call of    *)
(* update_lead_status leaves its arguments and its return value in call.   *)
(***************************************************************************)

\* src/config.py 23-40, in the order of the list
LEAD_STATUSES ==
  << <<"N","e","w"," ","L","e","a","d">>,
     <<"I","n","i","t","i","a","l"," ","C","o","n","t","a","c","t">>,
     <<"F","o","l","l","o","w"," ","U","p"," ","1">>,
     <<"F","o","l","l","o","w"," ","U","p"," ","2">>,
     <<"F","o","l","l","o","w"," ","U","p"," ","3">>,
     <<"I","n","t","e","r","e","s","t","e","d">>,
     <<"T","r","i","a","l"," ","M","e","m","b","e","r","s","h","i","p">>,
     <<"P","r","o","p","o","s","a","l"," ","S","e","n","t">>,
     <<"N","e","g","o","t","i","a","t","i","o","n">>,
     <<"R","e","a","d","y"," ","t","o"," ","J","o","i","n">>,
     <<"M","e","m","b","e","r">>,
     <<"L","o","s","t"," ","-"," ","N","o"," ","R","e","s","p","o","n","s","e">>,
     <<"L","o","s","t"," ","-"," ","N","o","t"," ","I","n","t","e","r","e","s","t","e","d">>,
     <<"L","o","s","t"," ","-"," ","P","r","i","c","e">>,
     <<"L","o","s","t"," ","-"," ","L","o","c","a","t","i","o","n">>,
     <<"R","e","-","e","n","g","a","g","e"," ","L","a","t","e","r">> >>

InitialContact == LEAD_STATUSES[2]
FollowUp1 == LEAD_STATUSES[3]
FollowUp2 == LEAD_STATUSES[4]
FollowUp3 == LEAD_STATUSES[5]
Member == LEAD_STATUSES[11]
ReengageLater == LEAD_STATUSES[16]
Urgent == <<"U","r","g","e","n","t">>
status_notes == <<"s","t","a","t","u","s","_","n","o","t","e","s">>
follow_up_ == <<"f","o","l","l","o","w","_","u","p">>

\* the missing value of a numeric column (NaN): it is no count and no score,
\* NaN + 1 is NaN and NaN >= 3 is false
NaN == -1

\* the columns add_metadata fills with numbers
numeric_columns == {S.follow_up_count, S.lead_score}

missing(c) == IF c \in numeric_columns THEN NaN ELSE NA

\* the label lead_id is in the index of t
HasLabel(t, lead_id) == \E k \in 1..NRows(t) : t.rows[k].idx = lead_id

\* the position of the row labelled lead_id
LabelPos(t, lead_id) == CHOOSE k \in 1..NRows(t) : t.rows[k].idx = lead_id

\* df.loc[lead_id, c] = v : the cell of the row labelled lead_id; a label
\* that is not in the index is appended as a new row, missing in every other
\* column
loc_set(t, lead_id, c, v) ==
  LET u == IF HasCol(t, c) THEN t ELSE SetColAll(t, c, missing(c))
  IN IF HasLabel(u, lead_id)
     THEN [u EXCEPT !.rows[LabelPos(u, lead_id)].vals[ColIdx(u, c)] = v]
     ELSE [u EXCEPT !.rows =
             Append(u.rows,
                    [idx |-> lead_id,
                     vals |-> [j \in 1..Len(u.cols) |->
                                 IF j = ColIdx(u, c) THEN v ELSE missing(u.cols[j])]])]

\* df.loc[lead_id, c]
loc_get(t, lead_id, c) == Cell(t, LabelPos(t, lead_id), c)

\* the column c, made of v when the table has none
with_column(t, c, v) == IF HasCol(t, c) THEN t ELSE SetColAll(t, c, v)

\* datetime.now(), as a text
Stamp(n) == <<"t">> \o IntToStr(n)

\* line 101
new_note(now, new_status, notes) ==
  now \o <<":"," ">> \o new_status \o <<" ","-"," ">> \o notes

\* lines 99-106
add_note(t, lead_id, note) ==
  LET current_notes == loc_get(t, lead_id, status_notes)
  IN loc_set(t, lead_id, status_notes,
             IF isna(current_notes) \/ current_notes = EmptyStr
             THEN note
             ELSE current_notes \o <<"\n">> \o note)

\* lines 108-116
count_follow_up(t, lead_id, new_status) ==
  IF Contains(Lower(new_status), follow_up_)
  THEN LET current_count == loc_get(t, lead_id, S.follow_up_count)
       IN loc_set(t, lead_id, S.follow_up_count,
                  IF current_count = NaN THEN NaN ELSE current_count + 1)
  ELSE t

\* lines 208-229
auto_advance_status(t, lead_id, current_status) ==
  IF current_status \in {FollowUp1, FollowUp2, FollowUp3}
  THEN LET follow_up_count == loc_get(t, lead_id, S.follow_up_count)
       IN IF follow_up_count # NaN /\ follow_up_count >= 3
          THEN IF loc_get(t, lead_id, S.priority) \in {High, Urgent}
               THEN t
               ELSE loc_set(t, lead_id, S.lead_status, ReengageLater)
          ELSE t
  ELSE t

\* lines 88-125: the table after an update that passed the three tests
updated_leads(t, lead_id, new_status, notes, now) ==
  LET t1 == loc_set(t, lead_id, S.lead_status, new_status)
      t2 == loc_set(with_column(t1, S.status_updated_date, NA),
                    lead_id, S.status_updated_date, now)
      t3 == add_note(with_column(t2, status_notes, EmptyStr), lead_id,
                     new_note(now, new_status, notes))
      t4 == count_follow_up(with_column(t3, S.follow_up_count, 0),
                            lead_id, new_status)
      t5 == loc_set(with_column(t4, S.last_contact_date, NA),
                    lead_id, S.last_contact_date, now)
  IN auto_advance_status(t5, lead_id, new_status)

\* lines 80-87: the tests that make update_lead_status return False
update_refused(lead_id, new_status) ==
  \/ leads_data = << >>
  \/ lead_id >= NRows(leads_data[1])
  \/ \A i \in 1..Len(LEAD_STATUSES) : LEAD_STATUSES[i] # new_status

\* lines 133-156: to_excel(..., index=False) writes the cells, not the index
saved_sheet(t) ==
  [cols |-> t.cols, rows |-> AsSeq([k \in 1..NRows(t) |-> t.rows[k].vals])]

\* lines 477-485, with data the value of self.leads_data: the row at position
\* lead_id, {} when there is none
get_lead_details(data, lead_id) ==
  IF data = << >> \/ lead_id >= NRows(data[1])
  THEN << >>
  ELSE data[1].rows[lead_id + 1].vals

(***************************************************************************)
(* SpecLeads: a LeadManager that loads a table of at most MaxLeads leads   *)
(* and takes at most MaxCalls calls of update_lead_status.  The table is   *)
(* what clean_all_data builds without enrichment: the cleaned records go   *)
(* through remove_duplicates and add_metadata.                             *)
(***************************************************************************)
MaxLeads == 2
MaxCalls == 3

LeadColumns == <<S.full_name, S.phone_number, S.email, S.city, S.source_sheet>>

\* a lead with every contact field, the same person with the phone only, and
\* another person
LeadRecords ==
  {<<N1, P1, E1, C1, SheetContacts>>,
   <<NA, P1, NA, NA, SheetContacts>>,
   <<N1, P2, NA, NA, SheetContacts>>}

LeadTables ==
  UNION {{MkTable(LeadColumns, f) : f \in [1..n -> LeadRecords]} : n \in 1..MaxLeads}

\* the statuses asked for: three of the vocabulary and one outside of it
AskedStatuses == {NewLead, FollowUp1, Member, Contacted}

Note1 == <<"o","k">>

LeadsInit ==
  /\ pc = "new"
  /\ df = NoTable
  /\ out = NoTable
  /\ cleaning_log = << >>
  /\ clock = 0
  /\ workbook = << >>
  /\ cleaned_data = << >>
  /\ enable_ai_enrichment = FALSE
  /\ openai_api_key = FALSE
  /\ ai_responses = << >>
  /\ NoCrm

\* lines 28-47, and src/data_cleaner.py 771-772 and 779-782
LoadCleanedLeads ==
  /\ pc = "new"
  /\ \E t \in LeadTables :
       \E p \in sort_orders(ranked_table(t)) :
         leads_data' = <<add_metadata(remove_duplicates(t, p), D1, D1)>>
  /\ pc' = "loaded"
  /\ UNCHANGED <<cleaner_vars, clock, leads_data_latest, call, leads, audit_log>>

\* lines 76-131
UpdateLeadStatus ==
  /\ clock < MaxCalls
  /\ clock' = clock + 1
  /\ \E lead_id \in 0..MaxLeads, new_status \in AskedStatuses :
       IF update_refused(lead_id, new_status)
       THEN /\ call' = [op |-> "update_lead_status", lead_id |-> lead_id,
                        new_status |-> new_status, notes |-> Note1,
                        user_id |-> << >>, result |-> FALSE]
            /\ UNCHANGED <<leads_data, leads_data_latest>>
       ELSE LET t == updated_leads(leads_data[1], lead_id, new_status, Note1,
                                   Stamp(clock'))
            IN /\ leads_data' = <<t>>
               /\ leads_data_latest' = <<saved_sheet(t)>>
               /\ call' = [op |-> "update_lead_status", lead_id |-> lead_id,
                           new_status |-> new_status, notes |-> Note1,
                           user_id |-> << >>, result |-> TRUE]
  /\ UNCHANGED <<pc, cleaner_vars, leads, audit_log>>

LeadsNext == LoadCleanedLeads \/ UpdateLeadStatus

SpecLeads == LeadsInit /\ [][LeadsNext]_vars

(***************************************************************************)
(* DatabaseManager.update_lead_status (src/database_manager.py 159-196).   *)
(* leads is the table leads, a sequence of rows                            *)
(*   [id, user_id, lead_status, notes, status_updated_date]                *)
(* in the order of their ids, and audit_log the table audit_log.           *)
(***************************************************************************)

\* cursor.description after a statement: the columns of the result of a
\* SELECT, None after an UPDATE, which returns no rows
cursor_description(statement) ==
  IF statement = "SELECT"
  THEN <<"id", "user_id", "lead_status", "notes", "status_updated_date">>
  ELSE << >>

\* lines 166-167: the rows SELECT * FROM leads WHERE id = ? AND user_id = ?
\* finds
selected(lead_id, user_id) ==
  SelectSeq(leads, LAMBDA row : row.id = lead_id /\ row.user_id = user_id)

\* lines 171-175
update_leads(lead_id, new_status, notes, user_id, now) ==
  [k \in 1..Len(leads) |->
     IF leads[k].id = lead_id /\ leads[k].user_id = user_id
     THEN [leads[k] EXCEPT !.lead_status = new_status, !.notes = notes,
                           !.status_updated_date = now]
     ELSE leads[k]]

\* line 183: [col[0] for col in cursor.description] iterates the description
\* of the statement executed last, the UPDATE; iterating None is a TypeError
audit_entry_raises == cursor_description("UPDATE") = << >>

\* lines 178-185
audit_entry(lead_id, new_status, notes, user_id, old_values) ==
  [user_id |-> user_id, action |-> "UPDATE", table_name |-> "leads",
   record_id |-> lead_id,
   old_values |-> [j \in 1..Len(cursor_description("UPDATE")) |->
                     <<cursor_description("UPDATE")[j], old_values[j]>>],
   new_values |-> [lead_status |-> new_status, notes |-> notes]]

(***************************************************************************)
(* SpecDatabase: at most MaxDbCalls calls of update_lead_status on a       *)
(* database of at most MaxDbLeads leads of two users.                      *)
(***************************************************************************)
MaxDbLeads == 2
MaxDbCalls == 1

Users == {<<"u","1">>, <<"u","2">>}

DbRows(n) ==
  {f \in [1..n -> [id : 1..n, user_id : Users, lead_status : {NewLead, Member},
                   notes : {NA, Note1}, status_updated_date : {NA}]] :
     \A k \in 1..n : f[k].id = k}

DatabaseInit ==
  /\ pc = "start"
  /\ df = NoTable
  /\ out = NoTable
  /\ cleaning_log = << >>
  /\ clock = 0
  /\ workbook = << >>
  /\ cleaned_data = << >>
  /\ enable_ai_enrichment = FALSE
  /\ openai_api_key = FALSE
  /\ ai_responses = << >>
  /\ leads_data = << >>
  /\ leads_data_latest = << >>
  /\ call = NoCall
  /\ \E n \in 0..MaxDbLeads : \E f \in DbRows(n) : leads = AsSeq(f)
  /\ audit_log = << >>

\* lines 159-196: the TypeError leaves the with block, which rolls the
\* UPDATE back, and is caught at line 194
DbUpdateLeadStatus ==
  /\ clock < MaxDbCalls
  /\ clock' = clock + 1
  /\ \E lead_id \in 1..(MaxDbLeads + 1), new_status \in {InitialContact, Member},
        user_id \in Users :
       LET old_values == selected(lead_id, user_id)
           returns(result) ==
             [op |-> "db_update_lead_status", lead_id |-> lead_id,
              new_status |-> new_status, notes |-> Note1, user_id |-> user_id,
              result |-> result]
       IN IF old_values # << >>
          THEN IF audit_entry_raises
               THEN /\ call' = returns(FALSE)
                    /\ UNCHANGED <<leads, audit_log>>
               ELSE /\ leads' = AsSeq(update_leads(lead_id, new_status, Note1,
                                                   user_id, Stamp(clock')))
                    /\ audit_log' =
                         Append(audit_log,
                                audit_entry(lead_id, new_status, Note1, user_id,
                                            old_values[1]))
                    /\ call' = returns(TRUE)
          ELSE /\ call' = returns(FALSE)
               /\ UNCHANGED <<leads, audit_log>>
  /\ UNCHANGED <<pc, cleaner_vars, leads_data, leads_data_latest>>

DatabaseNext == DbUpdateLeadStatus

SpecDatabase == DatabaseInit /\ [][DatabaseNext]_vars

(***************************************************************************)
(* Claims about remove_duplicates, checked under SpecDedup.                *)
(***************************************************************************)
\* the identity key as the specification defines it, per record: the phone if
\* the record has one, else its email, else its full name, else empty
TieredKey(t, k) ==
  IF FieldFilled(t, k, S.phone_number) THEN Cell(t, k, S.phone_number)
  ELSE IF FieldFilled(t, k, S.email) THEN Cell(t, k, S.email)
  ELSE IF FieldFilled(t, k, S.full_name) THEN Cell(t, k, S.full_name)
  ELSE EmptyStr

\* the key remove_duplicates gives row k of its input
CodeKey(t, k) == Cell(add_duplicate_key(t), k, S.duplicate_key)

\* input row k (index label k - 1) is among the returned rows
Kept(k) == \E r \in 1..NRows(out) : out.rows[r].idx = k - 1

InputRows == 1..NRows(df)

\* C1: remove_duplicates returns at most as many records as it received, and
\* as many as there are distinct non-empty identity keys plus records whose
\* identity key is empty.
C1_OutputCount ==
  pc = "done" =>
    /\ NRows(out) <= NRows(df)
    /\ NRows(out) =
         Cardinality({TieredKey(df, k) : k \in InputRows} \ {EmptyStr})
         + Cardinality({k \in InputRows : TieredKey(df, k) = EmptyStr})

\* C2: every record whose identity key is empty (no phone, no email, no name)
\* is retained.
C2_EmptyKeyRetained ==
  pc = "done" =>
    \A k \in InputRows : TieredKey(df, k) = EmptyStr => Kept(k)

\* C3: the key remove_duplicates uses for a record is the tiered key of that
\* record, whatever columns the table has.
C3_KeyIsTiered ==
  pc = "done" =>
    \A k \in InputRows : CodeKey(df, k) = TieredKey(df, k)

\* C4: within a group of records given the same key, the kept record's
\* CompletenessScore is at least that of every discarded record.
C4_KeptIsMostComplete ==
  pc = "done" =>
    \A j, k \in InputRows :
      (CodeKey(df, j) = CodeKey(df, k) /\ Kept(k) /\ ~Kept(j))
        => get_completeness_score(df, k) >= get_completeness_score(df, j)

\* C4 witness: a later, more complete record displaced an earlier one
C4_Witness ==
  /\ pc = "done"
  /\ \E j, k \in InputRows :
       /\ j < k
       /\ CodeKey(df, j) = CodeKey(df, k)
       /\ CodeKey(df, k) # EmptyStr
       /\ Kept(k) /\ ~Kept(j)
       /\ get_completeness_score(df, k) > get_completeness_score(df, j)

\* the best score among the records sharing row k's key
IsBestOfGroup(k) ==
  \A j \in InputRows :
    CodeKey(df, j) = CodeKey(df, k)
      => get_completeness_score(df, k) >= get_completeness_score(df, j)

\* the rank as the claim words it: by the sheet's name
NamedRank(sheet_name) ==
  IF sheet_name \in {<<"M","a","i","n">>, <<"P","r","i","m","a","r","y">>} THEN 1
  ELSE IF sheet_name = <<"L","e","a","d","s">> THEN 2
  ELSE IF sheet_name = <<"C","o","n","t","a","c","t","s">> THEN 3
  ELSE 999

\* the rank by containment, ignoring case
ContainedRank(sheet_name) ==
  LET n == Lower(PyStr(sheet_name)) IN
  IF Contains(n, S.main) \/ Contains(n, S.primary) THEN 1
  ELSE IF Contains(n, S.leads) THEN 2
  ELSE IF Contains(n, S.contacts) THEN 3
  ELSE 999

\* C5 as stated: among the best-scoring records of a group (the records
\* remove_duplicates gives one key) the kept one has
\* the lowest rank, the rank being 1 for sheets named Main or Primary, 2 for
\* Leads, 3 for Contacts, 999 for every other sheet.
C5_LowestNamedRankKept ==
  (pc = "done" /\ HasCol(df, S.source_sheet)) =>
    \A j, k \in InputRows :
      (CodeKey(df, j) = CodeKey(df, k) /\ Kept(k)
         /\ IsBestOfGroup(j) /\ IsBestOfGroup(k))
        => NamedRank(Cell(df, k, S.source_sheet))
             <= NamedRank(Cell(df, j, S.source_sheet))

\* C5 amended: the same with the rank of a sheet being that of the first of
\* Main, Primary, Leads, Contacts its name contains, ignoring case, and 999
\* when it contains none; for tables that have a source_sheet column.
C5_LowestContainedRankKept ==
  (pc = "done" /\ HasCol(df, S.source_sheet)) =>
    \A j, k \in InputRows :
      (CodeKey(df, j) = CodeKey(df, k) /\ Kept(k)
         /\ IsBestOfGroup(j) /\ IsBestOfGroup(k))
        => ContainedRank(Cell(df, k, S.source_sheet))
             <= ContainedRank(Cell(df, j, S.source_sheet))

\* C5 witness: two records tie on the best score, and the later one, from the
\* better-ranked sheet, is the one kept
C5_Witness ==
  /\ pc = "done"
  /\ HasCol(df, S.source_sheet)
  /\ \E j, k \in InputRows :
       /\ j < k
       /\ CodeKey(df, j) = CodeKey(df, k)
       /\ IsBestOfGroup(j) /\ IsBestOfGroup(k)
       /\ ContainedRank(Cell(df, k, S.source_sheet))
            < ContainedRank(Cell(df, j, S.source_sheet))
       /\ Kept(k) /\ ~Kept(j)

SameRank(j, k) ==
  HasCol(df, S.source_sheet) =>
    get_sheet_priority(Cell(df, j, S.source_sheet))
      = get_sheet_priority(Cell(df, k, S.source_sheet))

\* C6: of two records of one group with the same score and the same sheet
\* rank, the earlier one in load order is kept, with or without a
\* source_sheet column (read here on the groups whose key is not empty).
C6_EarlierOfTieKept ==
  pc = "done" =>
    \A j, k \in InputRows :
      (j < k /\ CodeKey(df, j) = CodeKey(df, k) /\ CodeKey(df, k) # EmptyStr
         /\ get_completeness_score(df, j) = get_completeness_score(df, k)
         /\ SameRank(j, k))
        => ~Kept(k)

(***************************************************************************)
(* Claims about add_metadata, checked under SpecScore.                     *)
(***************************************************************************)
\* a field of an input record is populated: there, not missing, not blank
Populated(k, c) ==
  /\ HasCol(df, c)
  /\ Cell(df, k, c) # NA
  /\ Strip(Cell(df, k, c)) # EmptyStr

Missing(k, c) == ~HasCol(df, c) \/ Cell(df, k, c) = NA

Weight(b, w) == IF b THEN w ELSE 0

\* C9: lead_score is 40 for a populated phone plus 35 for a populated email
\* plus 15 for a populated city plus 10 for a populated child_age or
\* lead_type; priority is High from 70, Medium from 40, Low below.
C9_ScoreFormula ==
  pc = "done" =>
    \A k \in InputRows :
      /\ Cell(out, k, S.lead_score) =
             Weight(Populated(k, S.phone_number), 40)
           + Weight(Populated(k, S.email), 35)
           + Weight(Populated(k, S.city), 15)
           + Weight(Populated(k, S.child_age) \/ Populated(k, S.lead_type), 10)
      /\ Cell(out, k, S.priority) =
           (IF Cell(out, k, S.lead_score) >= 70 THEN High
            ELSE IF Cell(out, k, S.lead_score) >= 40 THEN Medium
            ELSE Low)

FullContact(k) ==
  /\ Populated(k, S.phone_number)
  /\ Populated(k, S.email)
  /\ Populated(k, S.city)
  /\ Populated(k, S.full_name)

OnlyName(k) ==
  /\ Populated(k, S.full_name)
  /\ ~Populated(k, S.phone_number)
  /\ ~Populated(k, S.email)
  /\ ~Populated(k, S.city)
  /\ ~Populated(k, S.child_age)
  /\ ~Populated(k, S.lead_type)

\* C10 as stated: phone, email, city and name populated give score 100 and
\* priority High; only a name populated gives score 10 and priority Low.
C10_NameCounts ==
  pc = "done" =>
    \A k \in InputRows :
      /\ FullContact(k) =>
           Cell(out, k, S.lead_score) = 100 /\ Cell(out, k, S.priority) = High
      /\ OnlyName(k) =>
           Cell(out, k, S.lead_score) = 10 /\ Cell(out, k, S.priority) = Low

\* C10 amended: with phone, email, city and name populated the score is 90
\* when child_age and lead_type are both missing and 100 when one of them is
\* populated, and the priority is High; a record with a name and every other
\* field missing scores 0 and is Low.
C10_NameDoesNotCount ==
  pc = "done" =>
    \A k \in InputRows :
      /\ (FullContact(k) /\ Missing(k, S.child_age) /\ Missing(k, S.lead_type)) =>
           Cell(out, k, S.lead_score) = 90 /\ Cell(out, k, S.priority) = High
      /\ (FullContact(k) /\ (Populated(k, S.child_age) \/ Populated(k, S.lead_type))) =>
           Cell(out, k, S.lead_score) = 100 /\ Cell(out, k, S.priority) = High
      /\ (Populated(k, S.full_name)
            /\ Missing(k, S.phone_number) /\ Missing(k, S.email)
            /\ Missing(k, S.city) /\ Missing(k, S.child_age)
            /\ Missing(k, S.lead_type)) =>
           Cell(out, k, S.lead_score) = 0 /\ Cell(out, k, S.priority) = Low

\* C10 witness: a scored record with phone, email, city and name and neither
\* child_age nor lead_type
C10_Witness ==
  /\ pc = "done"
  /\ \E k \in InputRows :
       /\ FullContact(k)
       /\ Missing(k, S.child_age) /\ Missing(k, S.lead_type)
       /\ Cell(out, k, S.lead_score) = 90

(***************************************************************************)
(* Claims about clean_all_data, checked under Spec.                        *)
(***************************************************************************)
\* the cell of the only row of sheet i under header h, NA without that header
SheetField(i, h) ==
  LET sheet == workbook[i]
      at == {j \in 1..Len(sheet.cols) : sheet.cols[j] = h}
  IN IF at = {} THEN NA ELSE sheet.rows[1][CHOOSE j \in at : TRUE]

\* the workbook of the scenario: Sheet A holds John Smith with the phone and
\* no email, Sheet B holds John Smith with the same phone and the email
TwoSheetsSamePerson ==
  /\ Len(workbook) = 2
  /\ \A i \in 1..2 : workbook[i].readable /\ Len(workbook[i].rows) = 1
  /\ SheetField(1, H_Name) = JohnSmith
  /\ SheetField(1, H_Phone) = RawPhone
  /\ SheetField(1, H_Email) = NA
  /\ SheetField(2, H_Name) = JohnSmith
  /\ SheetField(2, H_Phone) = RawPhone
  /\ SheetField(2, H_Email) = JohnEmail

\* row k of t holds the data of Sheet B: its email, and the name of Sheet B
\* in the column load_excel_data writes the sheet's name to under the
\* standard name of the label source_sheet
FromSheetB(t, k) ==
  /\ Cell(t, k, S.email) = JohnEmail
  /\ Cell(t, k, S.lead_source) = SheetName(2)

\* C7: for the two-sheet workbook of the scenario clean_all_data returns one
\* record: phone (555) 123-4567, email john@x.com, priority High, the data of
\* Sheet B; and the CompletenessScore of that record in the deduplication
\* was 85.
C7_TwoSheetScenario ==
  TwoSheetsSamePerson =>
    /\ pc = "remove_duplicates" =>
         \E k \in 1..NRows(df) :
           /\ FromSheetB(df, k)
           /\ get_completeness_score(df, k) = 85
    /\ pc = "done" =>
         /\ NRows(out) = 1
         /\ FromSheetB(out, 1)
         /\ Cell(out, 1, S.phone_number)
              = <<"(","5","5","5",")"," ","1","2","3","-","4","5","6","7">>
         /\ Cell(out, 1, S.full_name) = JohnSmith
         /\ Cell(out, 1, S.priority) = High
         /\ cleaned_data = <<out>>

\* C7 witness: the call on the scenario's workbook has returned
C7_Witness ==
  /\ TwoSheetsSamePerson
  /\ pc = "done"
  /\ NRows(out) = 1
  /\ FromSheetB(out, 1)

\* C8: after load_excel_data and clean_column_names the table still has the
\* source_sheet column, holding for every record the name of a sheet of the
\* workbook; it is there when remove_duplicates runs, and in the table
\* clean_all_data returns.
C8_SourceSheetAttached ==
  LET Attached(t) ==
        /\ HasCol(t, S.source_sheet)
        /\ \A k \in 1..NRows(t) :
             \E i \in 1..Len(workbook) :
               Cell(t, k, S.source_sheet) = workbook[i].name
  IN /\ pc \in {"clean_phone_numbers", "remove_duplicates"} => Attached(df)
     /\ pc = "done" => Attached(out)

(***************************************************************************)
(* Claims about the completeness score, checked under SpecCompleteness.    *)
(***************************************************************************)
\* C11: the CompletenessScore remove_duplicates computes for a record is an
\* integer in 0..100: 40 for a populated phone plus 35 for a populated email
\* plus 15 for a populated city plus 10 for a populated full name, a missing,
\* empty or blank value being not populated; the returned records do not
\* carry it.
C11_CompletenessScore ==
  pc = "done" =>
    /\ \A k \in InputRows :
         LET score == Cell(ranked_table(df), k, S.completeness_score) IN
         /\ score \in 0..100
         /\ score =   Weight(Populated(k, S.phone_number), 40)
                    + Weight(Populated(k, S.email), 35)
                    + Weight(Populated(k, S.city), 15)
                    + Weight(Populated(k, S.full_name), 10)
    /\ ~HasCol(out, S.completeness_score)

\* C11 witness: a record with a phone, a blank city and an empty email was
\* scored 40 and returned
C11_Witness ==
  /\ pc = "done"
  /\ NRows(out) >= 1
  /\ \E k \in InputRows :
       /\ Populated(k, S.phone_number)
       /\ HasCol(df, S.city) /\ Cell(df, k, S.city) = Blank
       /\ HasCol(df, S.email) /\ Cell(df, k, S.email) = EmptyStr
       /\ ~HasCol(df, S.full_name)
       /\ Cell(ranked_table(df), k, S.completeness_score) = 40

(***************************************************************************)
(* Claims about add_metadata on any record, checked under SpecMeta.        *)
(***************************************************************************)
\* C12: every record add_metadata returns has lead_status New Lead,
\* follow_up_count 0, no last_contact_date and no follow_up_date, and a
\* creation timestamp, a lead score and a priority tier, whatever the input
\* record held in those fields.
C12_FreshMetadata ==
  pc \in {"done", "again"} =>
    /\ NRows(out) = NRows(df)
    /\ \A c \in tracking_columns \cup {S.cleaned_date} : HasCol(out, c)
    /\ \A k \in 1..NRows(out) :
         /\ Cell(out, k, S.lead_status) = NewLead
         /\ Cell(out, k, S.follow_up_count) = 0
         /\ Cell(out, k, S.last_contact_date) = NA
         /\ Cell(out, k, S.follow_up_date) = NA
         /\ Cell(out, k, S.cleaned_date) \in 0..MaxTime
         /\ Cell(out, k, S.lead_score) \in 0..100
         /\ Cell(out, k, S.priority) \in {High, Medium, Low}

\* C12 witness: a record that came in as Contacted, followed up three times,
\* went out as a New Lead
C12_Witness ==
  /\ pc = "done"
  /\ HasCol(df, S.lead_status) /\ HasCol(df, S.follow_up_count)
  /\ \E k \in 1..NRows(df) :
       /\ Cell(df, k, S.lead_status) = Contacted
       /\ Cell(df, k, S.follow_up_count) = 3
       /\ Cell(out, k, S.lead_status) = NewLead
       /\ Cell(out, k, S.follow_up_count) = 0

semantic_columns ==
  {S.full_name, S.phone_number, S.email, S.city, S.child_age, S.lead_type}

\* the records of b hold in the columns cs what the records of a hold
SameFields(a, b, cs) ==
  /\ NRows(a) = NRows(b)
  /\ \A c \in cs :
       /\ HasCol(a, c) <=> HasCol(b, c)
       /\ HasCol(a, c) => \A k \in 1..NRows(a) : Cell(a, k, c) = Cell(b, k, c)

\* C13: add_metadata applied to its own output gives every record the
\* lead_score, priority, lead_status, follow_up_count, last_contact_date and
\* follow_up_date the first application gave it, and neither application
\* changes a semantic field.
C13_MetadataIdempotent ==
  /\ pc = "again" => SameFields(df, out, tracking_columns)
  /\ pc \in {"done", "again"} => SameFields(df, out, semantic_columns)

\* C13 witness: the second application ran later than the first, on a record
\* that scores points
C13_Witness ==
  /\ pc = "again"
  /\ \E k \in 1..NRows(out) :
       /\ Cell(out, k, S.lead_score) = 85
       /\ Cell(df, k, S.cleaned_date) < Cell(out, k, S.cleaned_date)

(***************************************************************************)
(* Claims about the enrichment, checked under SpecEnrich.                  *)
(***************************************************************************)
\* the service did not answer, or answered something that is not the JSON
\* object asked for: not JSON, not an object, an object without any of the
\* four fields, or one whose library_benefits is not a list of texts
Malformed(r) ==
  \/ r.kind # "object"
  \/ r.benefits_kind = "other"
  \/ /\ r.customer_segment = NA /\ r.potential_value = NA
     /\ r.engagement_strategy = NA /\ r.benefits_kind = "absent"

\* record k of t has no value in column c
Unset(t, k, c) == ~HasCol(t, c) \/ Cell(t, k, c) = NA

\* C14: when the service is unavailable or its response malformed, the
\* enrichment does not raise, goes on with the next record, and leaves the
\* four enrichment fields of that record unset.
C14_FailureLeavesUnset ==
  (pc = "done" /\ openai_api_key) =>
    /\ NRows(out) = NRows(df)
    /\ \A k \in 1..NRows(df) :
         Malformed(ai_responses[k]) =>
           /\ Unset(out, k, S.ai_customer_segment)
           /\ Unset(out, k, S.ai_potential_value)
           /\ Unset(out, k, S.ai_engagement_strategy)
           /\ Unset(out, k, S.ai_library_benefits)

\* C15: the enrichment returns the records it received, in their order, with
\* every field they had unchanged (so the full name, phone, email,
\* lead_score, priority and lead_status); the columns it adds are ai_ columns.
C15_EnrichmentAdditive ==
  pc = "done" =>
    /\ NRows(out) = NRows(df)
    /\ \A i \in 1..Len(df.cols) :
         /\ HasCol(out, df.cols[i])
         /\ \A k \in 1..NRows(df) :
              Cell(out, k, df.cols[i]) = Cell(df, k, df.cols[i])
    /\ \A i \in 1..Len(out.cols) :
         HasCol(df, out.cols[i]) \/ StartsWith(out.cols[i], <<"a", "i", "_">>)

\* C15 witness: two different leads were enriched, the second one with the
\* full answer
C15_Witness ==
  /\ pc = "done"
  /\ NRows(out) = 2
  /\ Cell(df, 1, S.phone_number) # Cell(df, 2, S.phone_number)
  /\ Cell(df, 2, S.priority) = Medium
  /\ HasCol(out, S.ai_potential_value)
  /\ HasCol(out, S.ai_library_benefits)
  /\ Cell(out, 2, S.ai_potential_value) = High
  /\ Cell(out, 2, S.ai_library_benefits)
       = <<"B","o","o","k","s",";"," ","E","v","e","n","t","s">>

(***************************************************************************)
(* Claims about the stages of clean_all_data, checked under Spec.          *)
(***************************************************************************)
\* the stages in the order of the specification; "finish" stores the result
\* and "done" is the call returned
StageOrder ==
  <<"load_excel_data", "clean_column_names", "clean_phone_numbers",
    "clean_emails", "clean_names", "clean_addresses", "remove_duplicates",
    "add_metadata", "enrich_all_leads_with_ai", "finish", "done">>

StageErrors == {"ValueError", "KeyError"}

\* a step ends one stage and leads to the next one of the order, or to an
\* error; the enrichment changes the table only when it is enabled; the
\* result is stored by the last step only
StepInOrder ==
  /\ pc' # pc =>
       \E i \in 1..(Len(StageOrder) - 1) :
         /\ pc = StageOrder[i]
         /\ pc' = StageOrder[i + 1] \/ pc' \in StageErrors
  /\ pc' = pc => UNCHANGED vars
  /\ (pc = "enrich_all_leads_with_ai" /\ (df' # df \/ ai_responses' # ai_responses))
       => enable_ai_enrichment
  /\ cleaned_data' # cleaned_data => pc = "finish"

\* every phone, email, name and city of t is as its cleaner leaves it
FieldsCleaned(t) ==
  \A k \in 1..NRows(t) :
    /\ HasCol(t, S.phone_number) =>
         clean_phone(Cell(t, k, S.phone_number)) = Cell(t, k, S.phone_number)
    /\ HasCol(t, S.email) =>
         clean_email(Cell(t, k, S.email)) = Cell(t, k, S.email)
    /\ HasCol(t, S.full_name) =>
         clean_name(Cell(t, k, S.full_name)) = Cell(t, k, S.full_name)
    /\ HasCol(t, S.city) =>
         clean_address(Cell(t, k, S.city)) = Cell(t, k, S.city)

\* no two records of t have the same duplicate key
Deduplicated(t) ==
  \A j, k \in 1..NRows(t) :
    j # k => fillna(Cell(t, j, duplicate_key_source(t)))
             # fillna(Cell(t, k, duplicate_key_source(t)))

\* C16: the stages of clean_all_data run in one fixed order, each once and
\* after the one before it: load, column normalization, the four field
\* cleaners, deduplication, metadata, enrichment only when enabled, storing
\* of the result; the deduplication gets cleaned fields and the scoring gets
\* the deduplicated, not yet scored set.
C16_StagesInOrder ==
  /\ [][StepInOrder]_vars
  /\ [](pc = "remove_duplicates" => FieldsCleaned(df))
  /\ [](pc = "add_metadata" => Deduplicated(df) /\ ~HasCol(df, S.lead_score))

\* C16 witness: a call with enrichment enabled went through every stage, the
\* deduplication having removed a record
C16_Witness ==
  /\ pc = "done"
  /\ enable_ai_enrichment
  /\ ai_responses # << >>
  /\ Len(cleaning_log) = 8
  /\ \E i \in 1..Len(cleaning_log) : cleaning_log[i].n = 1
  /\ cleaned_data = <<out>>

\* C17: when a stage fails the call ends there with the error: no step
\* follows, no table is returned, and cleaned_data is what it was before the
\* call, which only the last step of a call that succeeds changes.
C17_FailureAborts ==
  /\ [][pc \notin StageErrors]_vars
  /\ [](pc \in StageErrors => out = NoTable)
  /\ [][pc' \in StageErrors => cleaned_data' = cleaned_data]_vars
  /\ [][cleaned_data' # cleaned_data => pc' = "done"]_vars

\* C17 witness: the deduplication raised on a table that had been through the
\* cleaners, on a cleaner that holds the result of an earlier call
C17_Witness ==
  /\ pc = "KeyError"
  /\ NRows(df) >= 1
  /\ Len(cleaning_log) >= 2
  /\ out = NoTable
  /\ cleaned_data = <<EarlierResult>>

(***************************************************************************)
(* Claims about load_excel_data in all-sheets mode, checked under Spec.    *)
(***************************************************************************)
\* the sheet can be read and has a row under its header
Yields(sheet) == sheet.readable /\ sheet.rows # << >>

\* the rows of the sheets from i on that yield rows, sheet by sheet, each as
\* the pair of its sheet and its place in the sheet
RECURSIVE YieldedRows(_)
YieldedRows(i) ==
  IF i > Len(workbook) THEN << >>
  ELSE (IF Yields(workbook[i])
        THEN [r \in 1..Len(workbook[i].rows) |-> [sheet |-> i, row |-> r]]
        ELSE << >>)
       \o YieldedRows(i + 1)

\* the column load_excel_data puts the cells under header h in
HeaderColumn(h) ==
  CASE h = H_Name -> S.full_name
    [] h = H_Phone -> S.phone_number
    [] h = H_Email -> S.email
    [] h = H_City -> S.city

\* record k of t is the row at of the workbook: its sheet's name, its cells
RowKept(t, k, at) ==
  LET sheet == workbook[at.sheet] IN
  /\ Cell(t, k, S.source_sheet) = sheet.name
  /\ \A j \in 1..Len(sheet.cols) :
       /\ HasCol(t, HeaderColumn(sheet.cols[j]))
       /\ Cell(t, k, HeaderColumn(sheet.cols[j])) = sheet.rows[at.row][j]

\* C18: load_excel_data fails, and the call with it, when no sheet of the
\* workbook yields a row; when a sheet does, it succeeds and returns the rows
\* of the sheets that yield rows, the empty and unreadable sheets skipped.
C18_LoadAllSheets ==
  /\ pc = "ValueError" => \A i \in 1..Len(workbook) : ~Yields(workbook[i])
  /\ pc \notin {"load_excel_data", "ValueError"} =>
       \E i \in 1..Len(workbook) : Yields(workbook[i])
  /\ pc = "clean_column_names" =>
       /\ NRows(df) = Len(YieldedRows(1))
       /\ \A k \in 1..NRows(df) : RowKept(df, k, YieldedRows(1)[k])

\* C18 witness: the first sheet is empty, the second unreadable or with a
\* row; here the second has a row and the load returned it
C18_Witness ==
  /\ pc = "clean_column_names"
  /\ Len(workbook) = 2
  /\ workbook[1].readable /\ workbook[1].rows = << >>
  /\ Yields(workbook[2])
  /\ NRows(df) = 1
  /\ RowKept(df, 1, [sheet |-> 2, row |-> 1])

(***************************************************************************)
(* Claims about the phone and email cleaners, checked under SpecField.     *)
(***************************************************************************)
\* the digits of s, in their order
RECURSIVE DigitsOf(_)
DigitsOf(s) ==
  IF s = << >> THEN << >>
  ELSE (IF Head(s) \in Digits THEN <<Head(s)>> ELSE << >>) \o DigitsOf(Tail(s))

\* (AAA) BBB-CCCC of ten digits
Formatted(d) ==
  <<"(", d[1], d[2], d[3], ")", " ", d[4], d[5], d[6], "-", d[7], d[8], d[9], d[10]>>

PhoneExample ==
  <<"(", "5", "5", "5", ")", " ", "1", "2", "3", "-", "4", "5", "6", "7">>

\* C19: clean_phone_numbers strips the non-digits of every present phone;
\* ten digits are formatted (AAA) BBB-CCCC, eleven digits starting with 1
\* lose the 1 and are formatted the same, any other digits are returned
\* bare, and no digit at all gives an absent value.  "+1 (555) 123-4567" and
\* "555.123.4567" give "(555) 123-4567"; "123" gives "123".
C19_PhoneFormat ==
  (pc = "phone_done" /\ HasCol(df, S.phone_number)) =>
    /\ NRows(out) = NRows(df)
    /\ \A k \in 1..NRows(df) :
         LET raw == Cell(df, k, S.phone_number)
             d == DigitsOf(raw)
             cleaned == Cell(out, k, S.phone_number)
         IN raw # NA =>
              /\ Len(d) = 10 => cleaned = Formatted(d)
              /\ (Len(d) = 11 /\ d[1] = "1") => cleaned = Formatted(Tail(d))
              /\ (Len(d) > 0 /\ Len(d) # 10 /\ ~(Len(d) = 11 /\ d[1] = "1"))
                   => cleaned = d
              /\ Len(d) = 0 => cleaned = NA
              /\ raw = <<"+","1"," ","(","5","5","5",")"," ","1","2","3","-","4","5","6","7">>
                   => cleaned = PhoneExample
              /\ raw = <<"5","5","5",".","1","2","3",".","4","5","6","7">>
                   => cleaned = PhoneExample
              /\ raw = <<"1","2","3">> => cleaned = <<"1","2","3">>

\* C19 witness: +1 (555) 123-4567 was cleaned to (555) 123-4567
C19_Witness ==
  /\ pc = "phone_done"
  /\ HasCol(df, S.phone_number)
  /\ \E k \in 1..NRows(df) :
       /\ Cell(df, k, S.phone_number)
            = <<"+","1"," ","(","5","5","5",")"," ","1","2","3","-","4","5","6","7">>
       /\ Cell(out, k, S.phone_number) = PhoneExample

\* e is local@domain.tld: one @ with a local part before it, a last dot
\* after it with a domain between the two, and two letters or more after the
\* dot; letters, digits and . _ % + - in the local part, letters, digits,
\* dots and hyphens in the domain
IsAddress(e) ==
  LET ats == {i \in 1..Len(e) : e[i] = "@"}
      dots == {i \in 1..Len(e) : e[i] = "."}
      at == CHOOSE i \in ats : TRUE
      dot == CHOOSE i \in dots : \A j \in dots : j <= i
      Letters == LowerLetters \cup UpperLetters
  IN /\ Cardinality(ats) = 1
     /\ dots # {}
     /\ at > 1
     /\ dot > at + 1
     /\ Len(e) - dot >= 2
     /\ \A i \in 1..(at - 1) : e[i] \in Letters \cup Digits \cup {".", "_", "%", "+", "-"}
     /\ \A i \in (at + 1)..(dot - 1) : e[i] \in Letters \cup Digits \cup {".", "-"}
     /\ \A i \in (dot + 1)..Len(e) : e[i] \in Letters

\* C20: the phone and email cleaners take every cell, text, number, blank or
\* absent, and give a cleaned value or absent, never an error; an email that,
\* trimmed and in lower case, is not local@domain.tld becomes absent, and one
\* that is, is kept trimmed and in lower case.  "Foo@Bar.COM" gives
\* "foo@bar.com" and "not-an-email" gives absent.
C20_CleanersNeverFail ==
  /\ pc = "start" => ENABLED FieldCleanPhoneNumbers /\ ENABLED FieldCleanEmails
  /\ (pc = "phone_done" /\ HasCol(df, S.phone_number)) =>
       \A k \in 1..NRows(df) :
         LET cleaned == Cell(out, k, S.phone_number) IN
         \/ cleaned = NA
         \/ /\ cleaned # << >>
            /\ \A i \in 1..Len(cleaned) : cleaned[i] \in Digits \cup {"(", ")", " ", "-"}
  /\ (pc = "email_done" /\ HasCol(df, S.email)) =>
       /\ NRows(out) = NRows(df)
       /\ \A k \in 1..NRows(df) :
            LET raw == Cell(df, k, S.email)
                cleaned == Cell(out, k, S.email)
            IN /\ raw = NA => cleaned = NA
               /\ (raw # NA /\ IsAddress(Lower(Strip(raw))))
                    => cleaned = Lower(Strip(raw))
               /\ (raw # NA /\ ~IsAddress(Lower(Strip(raw)))) => cleaned = NA
               /\ raw = <<"F","o","o","@","B","a","r",".","C","O","M">>
                    => cleaned = <<"f","o","o","@","b","a","r",".","c","o","m">>
               /\ raw = <<"n","o","t","-","a","n","-","e","m","a","i","l">>
                    => cleaned = NA

\* C20 witness: Foo@Bar.COM was kept as foo@bar.com
C20_Witness ==
  /\ pc = "email_done"
  /\ HasCol(df, S.email)
  /\ \E k \in 1..NRows(df) :
       /\ Cell(df, k, S.email) = <<"F","o","o","@","B","a","r",".","C","O","M">>
       /\ Cell(out, k, S.email) = <<"f","o","o","@","b","a","r",".","c","o","m">>

(***************************************************************************)
(* Claims about clean_names, checked under Spec on the table the stage     *)
(* leaves (the sheets of the workbook have no first or last name column).  *)
(***************************************************************************)
\* C21: clean_names collapses the whitespace of every present full name and
\* title-cases it, derives first_name as its first token and last_name as
\* its other tokens joined by a space, and is a no-op on a record whose full
\* name is absent: the name stays absent and no first or last name is
\* derived for it.
C21_NamesCleaned ==
  (pc = "clean_addresses" /\ HasCol(df, S.full_name)) =>
    \A k \in 1..NRows(df) :
      LET name == Cell(df, k, S.full_name) IN
      /\ name # NA =>
           /\ name = Title(JoinSpace(Split(name)))
           /\ Cell(df, k, S.first_name) = Split(name)[1]
           /\ Cell(df, k, S.last_name) = JoinSpace(Tail(Split(name)))
      /\ name = NA =>
           /\ Unset(df, k, S.first_name)
           /\ Unset(df, k, S.last_name)

(***************************************************************************)
(* Claims about the column normalizer, checked under SpecColumns.          *)
(***************************************************************************)

\* the sheet was loaded in all-sheets mode
LoadedAllSheets == HasCol(df, S.source_sheet)

\* the canonical field of each header label of RawLabels: the field of the
\* first group, in the order name, phone, email, city, date, ..., that has a
\* keyword inside the lower-cased label.  'Contact Name' holds 'name' (name
\* group) and 'contact' (phone group); 'Date contacted' holds 'contact'
\* (phone group) and 'date' (date group); 'Remarks' holds no keyword.
FirstGroupField(label) ==
  CASE label \in {H_Phone, H_Mobile, h_phone, h_mobile} -> S.phone_number
    [] label = H_ContactName -> S.full_name
    [] label = H_DateContacted -> S.phone_number
    [] label = H_Created -> S.lead_date
    [] label = H_Remarks -> H_Remarks

FullColumn(sheet, j) ==
  \A k \in 1..Len(sheet.rows) : sheet.rows[k][j] \notin {NA, EmptyStr}

\* the column at position i of t holds the values of source column j
HoldsColumn(t, i, sheet, j) ==
  /\ NRows(t) = Len(sheet.rows)
  /\ \A k \in 1..NRows(t) : t.rows[k].vals[i] = sheet.rows[k][j]

PhoneLabels == {H_Phone, H_Mobile, h_phone, h_mobile}

\* C23: after load_excel_data and clean_column_names the labels are pairwise
\* distinct, every populated source column is in the output with its values,
\* and of several source columns of the field phone_number the first one is
\* the column named phone_number.
C23_NoColumnLost ==
  pc = "normalized" =>
    LET sheet == workbook[1] IN
    /\ \A i, j \in 1..Len(out.cols) : i # j => out.cols[i] # out.cols[j]
    /\ \A j \in 1..Len(sheet.cols) :
         FullColumn(sheet, j) =>
           /\ \E i \in 1..Len(out.cols) : HoldsColumn(out, i, sheet, j)
           /\ (/\ sheet.cols[j] \in PhoneLabels
               /\ \A i \in 1..(j - 1) : sheet.cols[i] \notin PhoneLabels)
                => /\ HasCol(out, S.phone_number)
                   /\ HoldsColumn(out, ColIdx(out, S.phone_number), sheet, j)

\* the same for a sheet that was loaded by its name: there clean_column_names
\* alone names the columns and suffixes the repeats
NamedSheetKeepsColumns == LoadedAllSheets \/ C23_NoColumnLost

\* the set of the labels of t
Labels(t) == {t.cols[i] : i \in 1..Len(t.cols)}

\* C24: clean_column_names applied to a table that clean_column_names
\* returned gives a table with the same set of column labels.
C24_LabelsFixedPoint ==
  pc = "normalized_again" => Labels(out) = Labels(df)

\* the protected date and timestamp keywords
ProtectedKeywords ==
  {<<"d","a","t","e">>, <<"c","r","e","a","t","e","d">>,
   <<"t","i","m","e","s","t","a","m","p">>,
   <<"d","a","t","e","_","c","o","n","t","a","c","t","e","d">>,
   <<"l","e","a","d","_","d","a","t","e">>,
   <<"c","o","n","t","a","c","t","_","d","a","t","e">>}

Protected(label) ==
  \E keyword \in ProtectedKeywords : Contains(Strip(Lower(label)), keyword)

\* how many cells of the column at position i are missing or ''
EmptyCells(t, i) ==
  Cardinality({k \in 1..NRows(t) : t.rows[k].vals[i] \in {NA, EmptyStr}})

\* the positions of the columns that are protected or less than 95% empty
KeptForContent(t) ==
  {i \in 1..Len(t.cols) :
     Protected(t.cols[i]) \/ 100 * EmptyCells(t, i) < 95 * NRows(t)}

\* some protected column of t has no value at all
ProtectedAllEmpty(t) ==
  \E i \in 1..Len(t.cols) : Protected(t.cols[i]) /\ EmptyCells(t, i) = NRows(t)

\* C25: clean_column_names drops the columns that are entirely or at least
\* 95% empty and not protected, and keeps every protected column, however
\* sparse, and every column that is less than 95% empty: the columns of the
\* result are as many as the columns of its input that are protected or
\* less than 95% empty.
C25_EmptyColumnsDropped ==
  pc = "normalized" => Len(out.cols) = Cardinality(KeptForContent(df))

\* the same for the tables whose protected columns all hold a value
SparseColumnsDropped ==
  (pc = "normalized" /\ ~ProtectedAllEmpty(df)) =>
    Len(out.cols) = Cardinality(KeptForContent(df))

(***************************************************************************)
(* Claims about LeadManager, checked under SpecLeads.                      *)
(***************************************************************************)

\* the place of a status in LEAD_STATUSES
StatusPos(status) == CHOOSE i \in 1..Len(LEAD_STATUSES) : LEAD_STATUSES[i] = status

\* the stage of the lifecycle a status belongs to: New Lead, Initial Contact,
\* the follow-ups, the five statuses of an interested lead, Member; the
\* Lost-* statuses and Re-engage Later are the last stage
Stage(status) ==
  LET i == StatusPos(status)
  IN IF i <= 2 THEN i
     ELSE IF i <= 5 THEN 3
     ELSE IF i <= 10 THEN 4
     ELSE IF i = 11 THEN 5
     ELSE 6

Terminal(status) == Stage(status) >= 5

\* C26: a loaded lead starts in New Lead; an update_lead_status call never
\* moves a lead to an earlier stage of the lifecycle and never changes the
\* status of a lead that is in Member, a Lost-* status or Re-engage Later.
C26_Lifecycle ==
  [][/\ (leads_data = << >> /\ leads_data' # << >>) =>
          \A k \in 1..NRows(leads_data'[1]) :
            Cell(leads_data'[1], k, S.lead_status) = NewLead
     /\ (leads_data # << >> /\ leads_data' # << >>) =>
          \A k \in 1..NRows(leads_data[1]) :
            LET label == leads_data[1].rows[k].idx
                before == Cell(leads_data[1], k, S.lead_status)
                after == loc_get(leads_data'[1], label, S.lead_status)
            IN \/ after = before
               \/ ~Terminal(before) /\ Stage(after) >= Stage(before)]_vars

\* the step is a call of update_lead_status that returns True
UpdateSucceeds == clock' = clock + 1 /\ call'.result

\* C27: an update_lead_status call that succeeds with Follow Up 1, 2 or 3
\* adds exactly 1 to the follow_up_count of the lead it updates, and a call
\* that succeeds with another status leaves the count as it is.
C27_FollowUpCounted ==
  [][(UpdateSucceeds /\ HasLabel(leads_data[1], call'.lead_id)) =>
       LET before == loc_get(leads_data[1], call'.lead_id, S.follow_up_count)
           after == loc_get(leads_data'[1], call'.lead_id, S.follow_up_count)
       IN IF call'.new_status \in {FollowUp1, FollowUp2, FollowUp3}
          THEN after = before + 1
          ELSE after = before]_vars

\* how many of the notes in a status_notes text record a follow-up status
FollowUpsNoted(text) ==
  LET mark == <<":"," ","F","o","l","l","o","w"," ","U","p"," ">>
  IN Cardinality({i \in 1..Len(text) :
                    /\ i + Len(mark) - 1 <= Len(text)
                    /\ SubSeq(text, i, i + Len(mark) - 1) = mark})

\* the last call was an update that returned True
Updated == call.op = "update_lead_status" /\ call.result

\* C28: after an update_lead_status call that moved a lead into a Follow Up
\* status for the third time the lead is in Re-engage Later, unless its
\* priority is High or Urgent; then, and before the third follow-up, and
\* after an update to any other status, the lead has the status of the call.
C28_AutoAdvance ==
  Updated =>
    LET t == leads_data[1]
        status == loc_get(t, call.lead_id, S.lead_status)
        priority == loc_get(t, call.lead_id, S.priority)
        noted == FollowUpsNoted(loc_get(t, call.lead_id, status_notes))
    IN IF /\ call.new_status \in {FollowUp1, FollowUp2, FollowUp3}
          /\ priority \notin {High, Urgent}
          /\ noted >= 3
       THEN status = ReengageLater
       ELSE status = call.new_status

\* the same without the third follow-up of a lead of lower priority
StatusOfCallKept ==
  Updated =>
    LET t == leads_data[1]
        status == loc_get(t, call.lead_id, S.lead_status)
        priority == loc_get(t, call.lead_id, S.priority)
        noted == FollowUpsNoted(loc_get(t, call.lead_id, status_notes))
    IN (\/ call.new_status \notin {FollowUp1, FollowUp2, FollowUp3}
        \/ priority \in {High, Urgent}
        \/ noted < 3)
       => status = call.new_status

\* C29: an update_lead_status(lead_id, ...) call that returns True gives its
\* status to the lead get_lead_details(lead_id) returns, leaves the leads at
\* the other positions as they were and leaves the number of leads as it
\* was; a call that returns False changes nothing.
C29_UpdatesLeadAtId ==
  [][clock' = clock + 1 =>
       IF call'.result
       THEN LET before == leads_data[1]
                after == leads_data'[1]
                details == get_lead_details(leads_data', call'.lead_id)
            IN /\ NRows(after) = NRows(before)
               /\ details[ColIdx(after, S.lead_status)]
                    \in {call'.new_status, ReengageLater}
               /\ \A k \in 1..NRows(before) :
                    (k # call'.lead_id + 1 /\ k <= NRows(after)) =>
                      \A j \in 1..Len(before.cols) :
                        Cell(after, k, before.cols[j]) = before.rows[k].vals[j]
       ELSE /\ leads_data' = leads_data
            /\ leads_data_latest' = leads_data_latest]_vars

\* the same for the tables whose labels are their positions 0, 1, 2, ...
LabelsArePositions(t) == \A k \in 1..NRows(t) : t.rows[k].idx = k - 1

UpdatesLeadAtIdWhenLabelled ==
  [][(clock' = clock + 1 /\ leads_data # << >>
        /\ LabelsArePositions(leads_data[1])) =>
       IF call'.result
       THEN LET before == leads_data[1]
                after == leads_data'[1]
                details == get_lead_details(leads_data', call'.lead_id)
            IN /\ NRows(after) = NRows(before)
               /\ details[ColIdx(after, S.lead_status)]
                    \in {call'.new_status, ReengageLater}
               /\ \A k \in 1..NRows(before) :
                    k # call'.lead_id + 1 =>
                      \A j \in 1..Len(before.cols) :
                        Cell(after, k, before.cols[j]) = before.rows[k].vals[j]
       ELSE leads_data' = leads_data]_vars

(***************************************************************************)
(* Claims about DatabaseManager, checked under SpecDatabase.               *)
(***************************************************************************)

\* the lead of the call is in the table leads and belongs to the user
LeadOfUser(lead_id, user_id) ==
  \E k \in 1..Len(leads) : leads[k].id = lead_id /\ leads[k].user_id = user_id

\* C30: update_lead_status on a lead of the user returns True, stores the
\* new status and the notes on that lead only and appends one audit_log
\* entry with the old and the new values; on a lead the user does not have
\* it returns False and changes neither leads nor audit_log.
C30_DatabaseUpdate ==
  [][clock' = clock + 1 =>
       IF LeadOfUser(call'.lead_id, call'.user_id)
       THEN /\ call'.result
            /\ Len(leads') = Len(leads)
            /\ \A k \in 1..Len(leads) :
                 IF leads[k].id = call'.lead_id
                 THEN /\ leads'[k].lead_status = call'.new_status
                      /\ leads'[k].notes = call'.notes
                 ELSE leads'[k] = leads[k]
            /\ Len(audit_log') = Len(audit_log) + 1
            /\ audit_log'[Len(audit_log')].record_id = call'.lead_id
            /\ audit_log'[Len(audit_log')].new_values.lead_status = call'.new_status
       ELSE /\ ~call'.result
            /\ leads' = leads
            /\ audit_log' = audit_log]_vars

\* the same for the leads the user does not have
UnknownLeadRefused ==
  [][(clock' = clock + 1 /\ ~LeadOfUser(call'.lead_id, call'.user_id)) =>
       /\ ~call'.result
       /\ leads' = leads
       /\ audit_log' = audit_log]_vars

====
